---- MODULE Spec2Model ----
(***************************************************************************)
(* Telegram bonus scraper: the ingestion paths (periodic poll and live     *)
(* push), the Message model's extraction, the in-memory delivery queue of  *)
(* MessageSender and the reconnect controller of RealTimeListener.         *)
(*                                                                         *)
(* JavaScript runs one continuation at a time: every action below is the   *)
(* code that runs between two suspension points (await, timer callback).   *)
(* A string is a sequence of one-character strings; a text is the sequence *)
(* of its lines (the text split on "\n").                                  *)
(***************************************************************************)
EXTENDS Integers, Sequences, FiniteSets, TLC

(***************************************************************************)
(* Strings                                                                 *)
(***************************************************************************)
UpperSeq == <<"A", "B", "C", "D", "E", "F", "G", "H", "I", "J", "K", "L", "M",
             "N", "O", "P", "Q", "R", "S", "T", "U", "V", "W", "X", "Y", "Z">>

LowerSeq == <<"a", "b", "c", "d", "e", "f", "g", "h", "i", "j", "k", "l", "m",
             "n", "o", "p", "q", "r", "s", "t", "u", "v", "w", "x", "y", "z">>

Upper == {UpperSeq[i] : i \in DOMAIN UpperSeq}

Lower == {LowerSeq[i] : i \in DOMAIN LowerSeq}

Digit == {"0", "1", "2", "3", "4", "5", "6", "7", "8", "9"}

\* [A-Za-z0-9]
Alnum == Upper \cup Lower \cup Digit

\* String.prototype.toLowerCase, one character
LowerChar(c) ==
  IF c \in Upper
  THEN LowerSeq[CHOOSE i \in DOMAIN UpperSeq : UpperSeq[i] = c]
  ELSE c

toLowerCase(s) == [i \in 1..Len(s) |-> LowerChar(s[i])]

\* s.substring(i - 1, i - 1 + Len(p)) = p, 1-based i
MatchAt(s, p, i) ==
  /\ i >= 1
  /\ i + Len(p) - 1 <= Len(s)
  /\ \A j \in 1..Len(p) : s[i + j - 1] = p[j]

\* String.prototype.includes
includes(s, p) == \E i \in 1..(Len(s) - Len(p) + 1) : MatchAt(s, p, i)

\* String.prototype.startsWith
startsWith(s, p) == MatchAt(s, p, 1)

\* String.prototype.trim (the only whitespace of the alphabet is the blank)
RECURSIVE trimStart(_)
trimStart(s) ==
  IF s # <<>> /\ Head(s) = " " THEN trimStart(Tail(s)) ELSE s

RECURSIVE trimEnd(_)
trimEnd(s) ==
  IF s # <<>> /\ s[Len(s)] = " " THEN trimEnd(SubSeq(s, 1, Len(s) - 1)) ELSE s

trim(s) == trimEnd(trimStart(s))

\* Array.prototype.filter on a sequence
RECURSIVE SelectLines(_)
SelectLines(ls) ==
  IF ls = <<>> THEN <<>>
  ELSE IF Len(trim(Head(ls))) > 0
       THEN <<Head(ls)>> \o SelectLines(Tail(ls))
       ELSE SelectLines(Tail(ls))

\* text.trim().split('\n').filter(line => line.trim().length > 0):
\* trimming the whole text only strips blanks of the first and last line,
\* which the per-line trim of the callers strips again.
NonEmptyLines(text) == SelectLines(text)

\* text.length of a text of raw lines joined by "\n"
RECURSIVE SumLen(_)
SumLen(ls) == IF ls = <<>> THEN 0 ELSE Len(Head(ls)) + SumLen(Tail(ls))

TextLength(text) ==
  IF text = <<>> THEN 0 ELSE SumLen(text) + Len(text) - 1

\* a marker test that takes every line for a URL line
HasUrlMarkerAny(line) == TRUE

http == <<"h", "t", "t", "p">>
dotCom == <<".", "c", "o", "m">>
dotNet == <<".", "n", "e", "t">>
dotOrg == <<".", "o", "r", "g">>

\* line.includes('http') || '.com' || '.net' || '.org'
HasUrlMarker(line) ==
  \/ includes(line, http)
  \/ includes(line, dotCom)
  \/ includes(line, dotNet)
  \/ includes(line, dotOrg)

(***************************************************************************)
(* Message.extractData                                                     *)
(***************************************************************************)
\* the code delimiter: this character stands for the grave accent (U+0060),
\* written BT in the comments
Backtick == "^"

\* null / undefined of a string field (no code and no URL is ever empty)
Null == <<>>

MinCodeLen == 4
MaxCodeLen == 20

\* length of the longest run of characters of set cs that starts at s[i]
RECURSIVE RunLen(_, _, _)
RunLen(s, i, cs) ==
  IF i <= Len(s) /\ s[i] \in cs THEN 1 + RunLen(s, i + 1, cs) ELSE 0

\* cleanLine.match(/BT([A-Za-z0-9]{4,20})BT/g) with the backticks removed:
\* the matches from position i on, leftmost first, not overlapping
RECURSIVE BacktickCodes(_, _)
BacktickCodes(s, i) ==
  IF i > Len(s) THEN <<>>
  ELSE LET n == RunLen(s, i + 1, Alnum)
       IN IF /\ s[i] = Backtick
             /\ n >= MinCodeLen
             /\ n <= MaxCodeLen
             /\ i + n + 1 <= Len(s)
             /\ s[i + n + 1] = Backtick
          THEN <<SubSeq(s, i + 1, i + n)>> \o BacktickCodes(s, i + n + 2)
          ELSE BacktickCodes(s, i + 1)

\* first pass of extractData: the backtick codes of every line, in order
RECURSIVE FirstPass(_)
FirstPass(lines) ==
  IF lines = <<>> THEN <<>>
  ELSE BacktickCodes(trim(Head(lines)), 1) \o FirstPass(Tail(lines))

\* [a-zA-Z0-9-]
LabelChar == Alnum \cup {"-"}

\* (com|net|org|co\.uk|tr), in the order the alternation tries them
Tlds == << <<"c", "o", "m">>, <<"n", "e", "t">>, <<"o", "r", "g">>,
           <<"c", "o", ".", "u", "k">>, <<"t", "r">> >>

\* the first alternative that matches (case-insensitively) at s[i], or Null
RECURSIVE TldAt(_, _, _)
TldAt(s, i, k) ==
  IF k > Len(Tlds) THEN Null
  ELSE IF MatchAt(toLowerCase(s), Tlds[k], i) THEN Tlds[k]
       ELSE TldAt(s, i, k + 1)

\* cleanLine.match(/([a-zA-Z0-9-]+\.(com|net|org|co\.uk|tr))/i)[0] searched
\* from position i on, or Null when nothing matches
RECURSIVE DomainMatch(_, _)
DomainMatch(s, i) ==
  IF i > Len(s) THEN Null
  ELSE LET n == RunLen(s, i, LabelChar)
           tld == IF n > 0 /\ i + n <= Len(s) /\ s[i + n] = "."
                  THEN TldAt(s, i + n + 1, 1) ELSE Null
       IN IF tld # Null THEN SubSeq(s, i, i + n + Len(tld))
          ELSE DomainMatch(s, i + 1)

\* cleanLine.replace(/[^A-Za-z0-9]/g, empty string)
StripNonAlnum(s) == SelectSeq(s, LAMBDA c : c \in Alnum)

httpsPrefix == <<"h", "t", "t", "p", "s", ":", "/", "/">>

\* a URL line that keeps the URL of an earlier line
NextUrlFirstWins(url, cleanLine) ==
  IF url # Null THEN url
  ELSE IF startsWith(cleanLine, http) THEN cleanLine
       ELSE IF DomainMatch(cleanLine, 1) # Null
            THEN httpsPrefix \o DomainMatch(cleanLine, 1)
            ELSE url

\* websiteUrl after a line with a URL marker: the line itself when it
\* starts with http, else https:// and the first domain match, else the
\* value it had
NextUrl(url, cleanLine) ==
  IF startsWith(cleanLine, http) THEN cleanLine
  ELSE IF DomainMatch(cleanLine, 1) # Null
       THEN httpsPrefix \o DomainMatch(cleanLine, 1)
       ELSE url

\* a fallback branch that does not look at the codes found so far
FallbackAllowedAlways(cleanLine, codes) == ~includes(cleanLine, <<Backtick>>)

\* the condition of the fallback branch: no backtick in the line and no
\* code found so far
FallbackAllowed(cleanLine, codes) ==
  ~includes(cleanLine, <<Backtick>>) /\ codes = <<>>

\* second pass of extractData over the lines from index i on;
\* acc = [codes, url] carries bonusCodes and websiteUrl through the loop
RECURSIVE SecondPass(_, _, _)
SecondPass(lines, i, acc) ==
  IF i > Len(lines) THEN acc
  ELSE LET cleanLine == trim(lines[i])
           code == StripNonAlnum(cleanLine)
           next ==
             IF HasUrlMarker(cleanLine)
             THEN [acc EXCEPT !.url = NextUrl(acc.url, cleanLine)]
             ELSE IF FallbackAllowed(cleanLine, acc.codes)
                  THEN IF Len(code) >= MinCodeLen /\ Len(code) <= MaxCodeLen
                       THEN [acc EXCEPT !.codes = Append(@, code)]
                       ELSE acc
                  ELSE acc
       IN SecondPass(lines, i + 1, next)

\* the code list and the URL that the two passes of extractData leave
Passes(text) ==
  SecondPass(NonEmptyLines(text), 1,
             [codes |-> FirstPass(NonEmptyLines(text)), url |-> Null])

\* a final test that looks at the codes only
ValidCodeOnly(hasBonus, hasWebsite) == hasBonus

\* the negation of the final test (!this.hasBonus || !this.hasWebsite)
Valid(hasBonus, hasWebsite) == hasBonus /\ hasWebsite

\* a primary code that the final test does not clear
PrimaryCodeKept(valid, bonusCodes) ==
  IF bonusCodes # <<>> THEN bonusCodes[1] ELSE Null

\* this.bonusCode: the first code, set to null by the final test
PrimaryCode(valid, bonusCodes) == IF valid THEN bonusCodes[1] ELSE Null

\* messageSchema.methods.extractData on a fresh document with this text:
\* the extracted fields of the document
extractData(text) ==
  LET bonusCodes == Passes(text).codes
      websiteUrl == Passes(text).url
      hasWebsite == websiteUrl # Null
      valid == Valid(bonusCodes # <<>>, hasWebsite)
  IN [bonusCode |-> PrimaryCode(valid, bonusCodes),
      allBonusCodes |-> bonusCodes,
      websiteUrl |-> websiteUrl,
      hasBonus |-> valid,
      hasWebsite |-> hasWebsite]

(***************************************************************************)
(* Configuration (config/channels.json, read-only to the program) and the  *)
(* source messages of the monitored channel                                *)
(***************************************************************************)
MaxMsgs == 2
MaxGroups == 3
MaxBatch == 3
MaxScans == 2
MaxCycles == 2
MaxPushes == 1
MaxStops == 1
MaxRecon == 2
MaxTimers == 2
MaxStarts == 1
MaxLines == 3
MaxErrors == 2
\* settings.realTime.maxReconnectAttempts of channels.json
MaxReconnectAttempts == 2
\* config.telegram.connectionRetries
maxRetries == 5

Msgs == 1..MaxMsgs
Groups == 1..MaxGroups
ScanIds == 1..MaxScans
CycleIds == 1..MaxCycles
ReconIds == 1..MaxRecon

\* the one monitored channel: channels[0] of channels.json
ChannelUsername == "chan"
ChannelId == "100"
ChannelKeywords == << <<"k", "o", "d">> >>

\* the channels with active and realTimeEnabled: the monitored channel and
\* a second one, which posts nothing
OtherChannelId == "200"
LiveChannels == {ChannelId, OtherChannelId}


\* the texts a message of the channel may have:
\*   "kod BTABCDBT" / "http://x.com"   a code and a URL
\*   "KOD" / "x.com"                    a URL only
CodeAndUrlText ==
  << <<"k", "o", "d", " ", Backtick, "A", "B", "C", "D", Backtick>>,
     <<"h", "t", "t", "p", ":", "/", "/", "x", ".", "c", "o", "m">> >>

UrlOnlyText == << <<"K", "O", "D">>, <<"x", ".", "c", "o", "m">> >>

Texts == {CodeAndUrlText, UrlOnlyText}

\* a message without text (a photo, a sticker)
NoText == <<>>

\* settings.messaging of channels.json, and config.scraping.batchSize. The
\* pipeline is explored under every send policy, the queue processor under
\* every batch size and send delay, the poll batches under every scraping
\* batch size; elsewhere one scraping batch holds every message, as the
\* configured 10 does.
MinLengths == {0, 10}

PolicySettings ==
  [batchSize : {MaxBatch}, sendDelay : {0},
   onlyWithBonusCode : BOOLEAN, minMessageLength : MinLengths,
   scrapingBatchSize : {MaxMsgs}]

QueueSettings ==
  [batchSize : 1..MaxBatch, sendDelay : {0, 1},
   onlyWithBonusCode : {TRUE}, minMessageLength : {0},
   scrapingBatchSize : {MaxMsgs}]

BatchSettings ==
  [batchSize : {MaxBatch}, sendDelay : {0},
   onlyWithBonusCode : {TRUE}, minMessageLength : {0},
   scrapingBatchSize : 1..MaxMsgs]

(***************************************************************************)
(* State                                                                   *)
(***************************************************************************)
VARIABLES
  settings,           \* settings.messaging, and config.scraping.batchSize
  targetGroups,       \* channelsConfig.targetGroups[g].active
  texts,              \* the text of each message of the channel
  messageDoc,         \* the fields extractData gave a new Message, or Null
  store,              \* the messages collection: documents in insert order
  isRunning,          \* ScraperService.isRunning
  intervalId,         \* ScraperService.intervalId is a live interval
  scans,              \* the running scrapeAllChannels invocations
  tasks,              \* the processMessage calls of each invocation's batch
  pushTasks,          \* the processRealTimeMessage call of each push event
  pushes,             \* push events delivered so far, per message
  groupEntities,      \* MessageSender.groupEntities (keys, in load order)
  sendQueue,          \* MessageSender.sendQueue: job ids, head first
  isProcessingQueue,  \* MessageSender.isProcessingQueue
  sentCount,          \* MessageSender.sentCount
  drainTimers,        \* live intervals set by startQueueProcessor
  cycles,             \* the running processQueue invocations
  jobs,               \* every queue item ever created, by job id
  sentLog,            \* job ids in the order the sink accepted them
  discarded,          \* job ids emptied out of the queue by clearQueue
  dropped,            \* job ids given up after a send error
  flooded,            \* job ids whose send was answered FLOOD_WAIT
  stops,              \* calls of ScraperService.stop so far
  isConnected,        \* TelegramClient.isConnected
  isListening,        \* RealTimeListener.isListening
  channelEntities,    \* RealTimeListener.channelEntities (keys)
  heartbeatInterval,  \* RealTimeListener.heartbeatInterval is not null
  heartbeats,         \* live intervals set by startHeartbeat
  reconnectAttempts,  \* RealTimeListener.reconnectAttempts
  recon,              \* the running start / handleReconnect call chains
  handlerRegistered,  \* a NewMessage handler is registered with the client
  starts,             \* calls of RealTimeListener.start from outside
  startChain,         \* the chain such a call still awaits, 0 when none
  exhausted,          \* handleReconnect gave up and no start() came since
  lastLoaded,         \* the channels the last loadChannelEntities resolved
  startPc,            \* the await ScraperService.start() is suspended at
  retryCount,         \* TelegramClient.retryCount
  connectFailed,      \* the connect() awaited by ScraperService.start failed
  errorLog            \* the errors logged while polling, per message

appVars == <<startPc, retryCount, connectFailed, errorLog>>
ingestVars == <<store, isRunning, intervalId, scans, tasks, pushTasks, pushes>>
senderVars == <<groupEntities, sendQueue, isProcessingQueue, sentCount,
                drainTimers, cycles>>
historyVars == <<jobs, sentLog, discarded, dropped, flooded, stops>>
listenerVars == <<isConnected, isListening, channelEntities, heartbeatInterval,
                  heartbeats, reconnectAttempts, recon, handlerRegistered,
                  starts, startChain, exhausted, lastLoaded>>
vars == <<settings, targetGroups, texts, messageDoc, appVars, ingestVars, senderVars, historyVars, listenerVars>>

IdleTask == [pc |-> "idle", doc |-> 0, result |-> "none"]
IdleCycle == [pc |-> "idle", batch |-> <<>>]

\* the state after new ScraperService(), whatever the configuration
Constructed ==
  /\ messageDoc = Null
  /\ store = <<>>
  /\ isRunning = FALSE
  /\ intervalId = FALSE
  /\ scans = [s \in ScanIds |-> [pc |-> "idle", initial |-> FALSE]]
  /\ tasks = [s \in ScanIds |-> [m \in Msgs |-> IdleTask]]
  /\ pushTasks = [m \in Msgs |-> IdleTask]
  /\ pushes = [m \in Msgs |-> 0]
  /\ groupEntities = <<>>
  /\ sendQueue = <<>>
  /\ isProcessingQueue = FALSE
  /\ sentCount = 0
  /\ drainTimers = 0
  /\ cycles = [c \in CycleIds |-> IdleCycle]
  /\ jobs = <<>>
  /\ sentLog = <<>>
  /\ discarded = {}
  /\ dropped = {}
  /\ flooded = {}
  /\ stops = 0
  /\ isConnected = FALSE
  /\ isListening = FALSE
  /\ channelEntities = {}
  /\ heartbeatInterval = FALSE
  /\ heartbeats = 0
  /\ reconnectAttempts = 0
  /\ recon = [r \in ReconIds |-> "idle"]
  /\ handlerRegistered = FALSE
  /\ starts = 0
  /\ startChain = 0
  /\ exhausted = FALSE
  /\ lastLoaded = {}
  /\ startPc = "idle"
  /\ retryCount = 0
  /\ connectFailed = FALSE
  /\ errorLog = [m \in Msgs |-> 0]

\* the channel holds one message with a text, the others are without text
OneText(t) == [m \in Msgs |-> IF m = 1 THEN t ELSE NoText]

\* the last configured group is inactive
Init ==
  /\ settings \in PolicySettings
  /\ targetGroups = [g \in Groups |-> g < MaxGroups]
  /\ \E t \in Texts : texts = OneText(t)
  /\ Constructed

(***************************************************************************)
(* The persistent store (Message model, collection "messages")             *)
(***************************************************************************)
\* new Message({...}) followed by extractData(): the document of message m
NewDoc(m) ==
  LET x == extractData(texts[m])
  IN [messageId |-> m,
      text |-> texts[m],
      channelId |-> ChannelId,
      channelUsername |-> ChannelUsername,
      bonusCode |-> x.bonusCode,
      allBonusCodes |-> x.allBonusCodes,
      websiteUrl |-> x.websiteUrl,
      hasBonus |-> x.hasBonus,
      hasWebsite |-> x.hasWebsite,
      processed |-> FALSE]

\* a lookup that never finds a document
findOneNothing(st, messageId, channelUsername) == 0

\* Message.findOne({messageId, channelUsername}): the index of the first
\* matching document, 0 when there is none
findOne(st, messageId, channelUsername) ==
  LET hits == {i \in 1..Len(st) : /\ st[i].messageId = messageId
                                  /\ st[i].channelUsername = channelUsername}
  IN IF hits = {} THEN 0 ELSE CHOOSE i \in hits : \A j \in hits : i <= j

\* the index without its unique option: no insert is ever refused
DuplicateKeyNotUnique(st, doc) == FALSE

\* the unique index {channelId: 1, messageId: 1}: inserting doc into st
\* fails with error code 11000
DuplicateKey(st, doc) ==
  \E i \in 1..Len(st) : /\ st[i].channelId = doc.channelId
                        /\ st[i].messageId = doc.messageId

\* messageDoc.save() of a new document that the index accepts
InsertDoc(st, doc) == Append(st, doc)

\* an update that flips the flag instead of setting it
MarkProcessedFlip(st, d) == [st EXCEPT ![d].processed = ~@]

\* existingMessage.save() after processed = true, and
\* Message.findByIdAndUpdate(_id, {processed: true}): only that path is set
MarkProcessed(st, d) == [st EXCEPT ![d].processed = TRUE]

(***************************************************************************)
(* Send policies                                                           *)
(***************************************************************************)
\* the poll path deciding with the live listener's policy
PollShouldSendLoose(doc) ==
  /\ ~(settings.onlyWithBonusCode /\ ~doc.hasBonus)
  /\ ~(TextLength(doc.text) < settings.minMessageLength)

\* ScraperService.shouldSendToGroups
PollShouldSend(doc) ==
  /\ doc.hasBonus /\ doc.hasWebsite
  /\ doc.bonusCode # Null /\ Len(trim(doc.bonusCode)) >= 4
  /\ doc.websiteUrl # Null /\ startsWith(doc.websiteUrl, http)

\* the live listener deciding with the extracted flags alone
PushShouldSendStrict(doc) == doc.hasBonus /\ doc.hasWebsite

\* RealTimeListener.shouldSendToGroups
PushShouldSend(doc) ==
  /\ ~(settings.onlyWithBonusCode /\ ~doc.hasBonus)
  /\ ~(TextLength(doc.text) < settings.minMessageLength)

(***************************************************************************)
(* MessageSender.sendToTargetGroups                                        *)
(***************************************************************************)
\* a filter that keeps the inactive groups
ActiveGroupsAll(entities) == entities

\* Array.from(groupEntities.values()).filter(g => g.config.active)
ActiveGroups(entities) == SelectSeq(entities, LAMBDA g : targetGroups[g])

\* the queue items pushed for document d, one per active group, in order
NewJobs(entities, d, via) ==
  [i \in 1..Len(ActiveGroups(entities)) |->
     [group |-> ActiveGroups(entities)[i], doc |-> d, via |-> via]]

sendToTargetGroups(d, via) ==
  /\ jobs' = jobs \o NewJobs(groupEntities, d, via)
  /\ sendQueue' = sendQueue \o
       [i \in 1..Len(NewJobs(groupEntities, d, via)) |-> Len(jobs) + i]

(***************************************************************************)
(* ScraperService: start, stop, the periodic poll                          *)
(***************************************************************************)
\* the ordered subsequences of the active groups: loadGroupEntities skips a
\* group whose entity cannot be resolved
RECURSIVE SubSeqs(_)
SubSeqs(q) ==
  IF q = <<>> THEN {<<>>}
  ELSE LET rest == SubSeqs(Tail(q))
       IN rest \cup {<<Head(q)>> \o r : r \in rest}

ConfiguredGroups == [g \in Groups |-> g]

FreeScans == {s \in ScanIds : scans[s].pc = "idle"}
LowestFreeScan == CHOOSE s \in FreeScans : \A t \in FreeScans : s <= t

\* ScraperService.start up to the first await of the initial
\* scrapeAllChannels: the client connects, MessageSender.initialize loads
\* the groups and starts the queue processor, RealTimeListener.start
\* succeeds, and the initial scan requests the channel's messages
ServiceStart ==
  /\ ~isRunning /\ stops = 0 /\ drainTimers = 0
  /\ isConnected' = TRUE
  /\ groupEntities' \in SubSeqs(ActiveGroups(ConfiguredGroups))
  /\ drainTimers' = drainTimers + 1
  /\ isListening' = TRUE
  /\ channelEntities' = LiveChannels
  /\ reconnectAttempts' = 0
  /\ heartbeatInterval' = TRUE
  /\ heartbeats' = heartbeats + 1
  /\ handlerRegistered' = TRUE
  /\ lastLoaded' = LiveChannels
  /\ isRunning' = TRUE
  /\ scans' = [scans EXCEPT ![1] = [pc |-> "fetch", initial |-> TRUE]]
  /\ UNCHANGED <<settings, targetGroups, texts, messageDoc, appVars, store, intervalId, tasks, pushTasks, pushes,
                 sendQueue, isProcessingQueue, sentCount, cycles,
                 historyVars, recon, starts, startChain, exhausted>>

\* the setInterval callback of ScraperService.start: a new
\* scrapeAllChannels whenever isRunning, whatever else is still running
PollTickGuard == isRunning

PollTick ==
  /\ intervalId
  /\ PollTickGuard
  /\ FreeScans # {}
  /\ scans' = [scans EXCEPT ![LowestFreeScan] =
                 [pc |-> "fetch", initial |-> FALSE]]
  /\ UNCHANGED <<settings, targetGroups, texts, messageDoc, appVars, store, isRunning, intervalId, tasks, pushTasks,
                 pushes, senderVars, historyVars, listenerVars>>

\* processMessage up to its first await: the text check, then findOne
ProcessMessageEntry(m) ==
  IF texts[m] = <<>>
  THEN [pc |-> "done", doc |-> 0, result |-> "skipped"]
  ELSE [pc |-> "find", doc |-> 0, result |-> "none"]

\* the messages of scan s that no processMessageBatch has taken yet
Pending(s) == {m \in Msgs : tasks[s][m].pc = "idle"}

\* recentMessages.slice(i, i + config.scraping.batchSize)
NextBatch(s) ==
  {m \in Pending(s) :
     Cardinality({k \in Pending(s) : k < m}) < settings.scrapingBatchSize}

\* processMessageBatch maps processMessage over its batch
StartBatch(s) ==
  [m \in Msgs |-> IF m \in NextBatch(s) THEN ProcessMessageEntry(m)
                                          ELSE tasks[s][m]]

\* getChannelMessages answers: every message is recent, and the first
\* processMessageBatch starts a processMessage for each message of its batch
ScanFetched(s) ==
  /\ scans[s].pc = "fetch"
  /\ scans' = [scans EXCEPT ![s].pc = "batch"]
  /\ tasks' = [tasks EXCEPT ![s] = StartBatch(s)]
  /\ UNCHANGED <<settings, targetGroups, texts, messageDoc, appVars, store, isRunning, intervalId, pushTasks, pushes,
                 senderVars, historyVars, listenerVars>>

\* getChannelMessages throws: scrapeAllChannels catches, and sleeps when
\* the error is a flood wait
ScanFetchFailed(s) ==
  /\ scans[s].pc = "fetch"
  /\ scans' = [scans EXCEPT ![s].pc = "sleep"]
  /\ UNCHANGED <<settings, targetGroups, texts, messageDoc, appVars, store, isRunning, intervalId, tasks, pushTasks,
                 pushes, senderVars, historyVars, listenerVars>>

\* the channel's first line filter of processMessage: 2 to 5 non-empty
\* lines, one of them with a URL marker
BonusFormat(text) ==
  LET lines == NonEmptyLines(text)
  IN /\ Len(lines) >= 2 /\ Len(lines) <= 5
     /\ \E i \in 1..Len(lines) : HasUrlMarker(lines[i])

\* a test that forgets the processed flag
ExistingUnsentAlways(doc) == doc.hasBonus /\ doc.hasWebsite

\* existingMessage.hasBonus && existingMessage.hasWebsite &&
\* !existingMessage.processed
ExistingUnsent(doc) == doc.hasBonus /\ doc.hasWebsite /\ ~doc.processed

\* findOne answers; processMessage runs on to its next await
PollFind(s, m) ==
  /\ tasks[s][m].pc = "find"
  /\ LET d == findOne(store, m, ChannelUsername)
     IN IF d # 0
        THEN IF /\ ExistingUnsent(store[d])
                /\ PollShouldSend(store[d])
             THEN /\ sendToTargetGroups(d, "poll")
                  /\ tasks' = [tasks EXCEPT ![s][m] =
                       [pc |-> "update", doc |-> d, result |-> "none"]]
             ELSE /\ tasks' = [tasks EXCEPT ![s][m] =
                       [pc |-> "done", doc |-> d, result |-> "known"]]
                  /\ UNCHANGED <<jobs, sendQueue>>
        ELSE /\ tasks' = [tasks EXCEPT ![s][m] =
                  IF BonusFormat(texts[m])
                  THEN [pc |-> "insert", doc |-> 0, result |-> "none"]
                  ELSE [pc |-> "done", doc |-> 0, result |-> "skipped"]]
             /\ UNCHANGED <<jobs, sendQueue>>
  /\ UNCHANGED <<settings, targetGroups, texts, messageDoc, appVars, store, isRunning, intervalId, scans, pushTasks,
                 pushes, groupEntities, isProcessingQueue, sentCount,
                 drainTimers, cycles, sentLog, discarded, dropped, flooded,
                 stops, listenerVars>>

\* messageDoc.save() of the new document answers; on success
\* processMessage runs on to the save after processed = true
PollInsert(s, m) ==
  /\ tasks[s][m].pc = "insert"
  /\ IF DuplicateKey(store, NewDoc(m))
     THEN /\ tasks' = [tasks EXCEPT ![s][m] =
               [pc |-> "done", doc |-> 0, result |-> "duplicate"]]
          /\ UNCHANGED <<store, jobs, sendQueue>>
     ELSE /\ store' = InsertDoc(store, NewDoc(m))
          /\ IF PollShouldSend(NewDoc(m))
             THEN /\ sendToTargetGroups(Len(store) + 1, "poll")
                  /\ tasks' = [tasks EXCEPT ![s][m] =
                       [pc |-> "update", doc |-> Len(store) + 1,
                        result |-> "none"]]
             ELSE /\ tasks' = [tasks EXCEPT ![s][m] =
                       [pc |-> "done", doc |-> Len(store) + 1,
                        result |-> "saved"]]
                  /\ UNCHANGED <<jobs, sendQueue>>
  /\ UNCHANGED <<settings, targetGroups, texts, messageDoc, appVars, isRunning, intervalId, scans, pushTasks, pushes,
                 groupEntities, isProcessingQueue, sentCount, drainTimers,
                 cycles, sentLog, discarded, dropped, flooded, stops,
                 listenerVars>>

\* the save after processed = true answers: 'bonus_sent'
PollUpdate(s, m) ==
  /\ tasks[s][m].pc = "update"
  /\ store' = MarkProcessed(store, tasks[s][m].doc)
  /\ tasks' = [tasks EXCEPT ![s][m].pc = "done",
                            ![s][m].result = "bonus_sent"]
  /\ UNCHANGED <<settings, targetGroups, texts, messageDoc, appVars, isRunning, intervalId, scans, pushTasks, pushes,
                 senderVars, historyVars, listenerVars>>

\* Promise.allSettled of the batch resolves; scrapeChannel returns and
\* scrapeAllChannels sleeps before the next channel
ScanBatchDone(s) ==
  /\ scans[s].pc = "batch"
  /\ \A m \in Msgs : tasks[s][m].pc = "done"
  /\ scans' = [scans EXCEPT ![s].pc = "sleep"]
  /\ tasks' = [tasks EXCEPT ![s] = [m \in Msgs |-> IdleTask]]
  /\ UNCHANGED <<settings, targetGroups, texts, messageDoc, appVars, store, isRunning, intervalId, pushTasks, pushes,
                 senderVars, historyVars, listenerVars>>

\* the sleep ends and scrapeAllChannels returns; after the initial scan
\* start() goes on to set the poll interval
ScanWake(s) ==
  /\ scans[s].pc = "sleep"
  /\ scans' = [scans EXCEPT ![s] = [pc |-> "idle", initial |-> FALSE]]
  /\ intervalId' = (intervalId \/ scans[s].initial)
  /\ UNCHANGED <<settings, targetGroups, texts, messageDoc, appVars, store, isRunning, tasks, pushTasks, pushes,
                 senderVars, historyVars, listenerVars>>

(***************************************************************************)
(* RealTimeListener: the live-push path                                    *)
(***************************************************************************)
\* channelConfig.keywords.filter(k => text.toLowerCase().includes(
\* k.toLowerCase())): no keyword holds a line break, so a keyword is in the
\* text when it is in one of its lines
matchedKeywords(text) ==
  SelectSeq(ChannelKeywords,
            LAMBDA k : \E i \in 1..Len(text) :
                         includes(toLowerCase(text[i]), toLowerCase(k)))

\* a handler that does not look the channel up in the map
PushAcceptedAnyChannel(m) ==
  /\ texts[m] # <<>>
  /\ matchedKeywords(texts[m]) # <<>>

\* handleNewMessage lets the event through to processRealTimeMessage
PushAccepted(m) ==
  /\ texts[m] # <<>>
  /\ ChannelId \in channelEntities
  /\ matchedKeywords(texts[m]) # <<>>

\* a push event for message m: handleNewMessage, and processRealTimeMessage
\* up to the await of messageDoc.save()
PushEvent(m) ==
  /\ handlerRegistered
  /\ pushes[m] < MaxPushes
  /\ pushTasks[m].pc \in {"idle", "done"}
  /\ pushes' = [pushes EXCEPT ![m] = @ + 1]
  /\ pushTasks' = [pushTasks EXCEPT ![m] =
       IF PushAccepted(m)
       THEN [pc |-> "insert", doc |-> 0, result |-> "none"]
       ELSE [pc |-> "done", doc |-> 0, result |-> "skipped"]]
  /\ UNCHANGED <<settings, targetGroups, texts, messageDoc, appVars, store, isRunning, intervalId, scans, tasks,
                 senderVars, historyVars, listenerVars>>

\* messageDoc.save() answers; on success processRealTimeMessage runs to
\* its end
PushInsert(m) ==
  /\ pushTasks[m].pc = "insert"
  /\ IF DuplicateKey(store, NewDoc(m))
     THEN /\ pushTasks' = [pushTasks EXCEPT ![m] =
               [pc |-> "done", doc |-> 0, result |-> "duplicate"]]
          /\ UNCHANGED <<store, jobs, sendQueue>>
     ELSE /\ store' = InsertDoc(store, NewDoc(m))
          /\ pushTasks' = [pushTasks EXCEPT ![m] =
               [pc |-> "done", doc |-> Len(store) + 1, result |-> "saved"]]
          /\ IF PushShouldSend(NewDoc(m))
             THEN sendToTargetGroups(Len(store) + 1, "push")
             ELSE UNCHANGED <<jobs, sendQueue>>
  /\ UNCHANGED <<settings, targetGroups, texts, messageDoc, appVars, isRunning, intervalId, scans, tasks, pushes,
                 groupEntities, isProcessingQueue, sentCount, drainTimers,
                 cycles, sentLog, discarded, dropped, flooded, stops,
                 listenerVars>>

(***************************************************************************)
(* MessageSender: the queue processor                                      *)
(***************************************************************************)
Min(a, b) == IF a < b THEN a ELSE b

FreeCycles == {c \in CycleIds : cycles[c].pc = "idle"}
LowestFreeCycle == CHOOSE c \in FreeCycles : \A d \in FreeCycles : c <= d

\* the interval callback without its isProcessingQueue test
DrainGuardNoFlag(processing, queue) == Len(queue) > 0

\* the condition of the startQueueProcessor interval callback
DrainGuard(processing, queue) == ~processing /\ Len(queue) > 0

\* a splice that takes the whole queue
SpliceBatchWhole(queue, batchSize) == queue

\* sendQueue.splice(0, batchSize): the removed prefix
SpliceBatch(queue, batchSize) == SubSeq(queue, 1, Min(batchSize, Len(queue)))

\* a slice in place of the splice: the queue keeps the batch
SpliceRestKeep(queue, batchSize) == queue

\* the queue left by sendQueue.splice(0, batchSize)
SpliceRest(queue, batchSize) ==
  SubSeq(queue, Min(batchSize, Len(queue)) + 1, Len(queue))

\* a requeue with push instead of unshift
RequeueAtTail(queue, job) == queue \o <<job>>

\* sendQueue.unshift(queueItem) after a FLOOD_WAIT
Requeue(queue, job) == <<job>> \o queue

\* the interval callback fires and calls processQueue, which takes its
\* batch and starts the send of the first item
DrainTick ==
  /\ drainTimers > 0
  /\ DrainGuard(isProcessingQueue, sendQueue)
  /\ FreeCycles # {}
  /\ isProcessingQueue' = TRUE
  /\ cycles' = [cycles EXCEPT ![LowestFreeCycle] =
       [pc |-> "send", batch |-> SpliceBatch(sendQueue, settings.batchSize)]]
  /\ sendQueue' = SpliceRest(sendQueue, settings.batchSize)
  /\ UNCHANGED <<settings, targetGroups, texts, messageDoc, appVars, ingestVars, groupEntities, sentCount, drainTimers,
                 historyVars, listenerVars>>

\* the for loop of processQueue moves to the next item of the batch, or
\* leaves the loop: finally isProcessingQueue = false
Advance(c) ==
  IF Len(cycles[c].batch) > 1
  THEN /\ cycles' = [cycles EXCEPT ![c] =
            [pc |-> "send", batch |-> Tail(cycles[c].batch)]]
       /\ UNCHANGED isProcessingQueue
  ELSE /\ cycles' = [cycles EXCEPT ![c] = IdleCycle]
       /\ isProcessingQueue' = FALSE

\* client.sendMessage resolves: the sink has the message, and
\* sendSingleMessage awaits findByIdAndUpdate
SendAccepted(c) ==
  /\ cycles[c].pc = "send"
  /\ sentLog' = Append(sentLog, Head(cycles[c].batch))
  /\ cycles' = [cycles EXCEPT ![c].pc = "mark"]
  /\ UNCHANGED <<settings, targetGroups, texts, messageDoc, appVars, ingestVars, groupEntities, sendQueue,
                 isProcessingQueue, sentCount, drainTimers, jobs, discarded,
                 dropped, flooded, stops, listenerVars>>

\* findByIdAndUpdate resolves, sendSingleMessage returns, sentCount++, and
\* processQueue sleeps sendDelay or goes on
SendMarked(c) ==
  /\ cycles[c].pc = "mark"
  /\ store' = MarkProcessed(store, jobs[Head(cycles[c].batch)].doc)
  /\ sentCount' = sentCount + 1
  /\ IF settings.sendDelay > 0
     THEN /\ cycles' = [cycles EXCEPT ![c].pc = "delay"]
          /\ UNCHANGED isProcessingQueue
     ELSE Advance(c)
  /\ UNCHANGED <<settings, targetGroups, texts, messageDoc, appVars, isRunning, intervalId, scans, tasks, pushTasks,
                 pushes, groupEntities, sendQueue, drainTimers, historyVars,
                 listenerVars>>

\* findByIdAndUpdate rejects after the sink has taken the message:
\* sendSingleMessage rethrows, processQueue logs the error and goes on, the
\* document is not marked and sentCount is not incremented
SendMarkFailed(c) ==
  /\ cycles[c].pc = "mark"
  /\ dropped' = dropped \cup {Head(cycles[c].batch)}
  /\ Advance(c)
  /\ UNCHANGED <<settings, targetGroups, texts, messageDoc, appVars, ingestVars, groupEntities, sendQueue, sentCount,
                 drainTimers, jobs, sentLog, discarded, flooded, stops,
                 listenerVars>>

\* the send throws an error whose message holds FLOOD_WAIT: the item goes
\* back to the front of the queue and processQueue sleeps the wait time
SendFlood(c) ==
  /\ cycles[c].pc = "send"
  /\ flooded' = flooded \cup {Head(cycles[c].batch)}
  /\ sendQueue' = Requeue(sendQueue, Head(cycles[c].batch))
  /\ cycles' = [cycles EXCEPT ![c].pc = "flood"]
  /\ UNCHANGED <<settings, targetGroups, texts, messageDoc, appVars, ingestVars, groupEntities, isProcessingQueue,
                 sentCount, drainTimers, jobs, sentLog, discarded, dropped,
                 stops, listenerVars>>

\* the send throws any other error: it is logged and the item is gone
SendError(c) ==
  /\ cycles[c].pc = "send"
  /\ dropped' = dropped \cup {Head(cycles[c].batch)}
  /\ Advance(c)
  /\ UNCHANGED <<settings, targetGroups, texts, messageDoc, appVars, ingestVars, groupEntities, sendQueue, sentCount,
                 drainTimers, jobs, sentLog, discarded, flooded, stops,
                 listenerVars>>

\* a sleep of processQueue (sendDelay, or the flood wait) ends
DrainWake(c) ==
  /\ cycles[c].pc \in {"delay", "flood"}
  /\ Advance(c)
  /\ UNCHANGED <<settings, targetGroups, texts, messageDoc, appVars, ingestVars, groupEntities, sendQueue, sentCount,
                 drainTimers, historyVars, listenerVars>>

\* a clearQueue that only logs the size
clearQueueKeep(queue) == queue

\* MessageSender.clearQueue: the new value of sendQueue
clearQueue(queue) == <<>>

JobsOf(queue) == {queue[i] : i \in 1..Len(queue)}

\* ScraperService.stop: the poll interval is cleared, then
\* RealTimeListener.stop, MessageSender.stop (clearQueue and
\* groupEntities.clear) and TelegramClient.disconnect
ServiceStop ==
  /\ isRunning
  /\ stops < MaxStops
  /\ stops' = stops + 1
  /\ isRunning' = FALSE
  /\ intervalId' = FALSE
  /\ isListening' = FALSE
  /\ heartbeats' = IF heartbeatInterval THEN heartbeats - 1 ELSE heartbeats
  /\ heartbeatInterval' = FALSE
  /\ channelEntities' = {}
  /\ discarded' = discarded \cup JobsOf(sendQueue)
  /\ sendQueue' = clearQueue(sendQueue)
  /\ groupEntities' = <<>>
  /\ isConnected' = FALSE
  /\ UNCHANGED <<settings, targetGroups, texts, messageDoc, appVars, store, scans, tasks, pushTasks, pushes,
                 isProcessingQueue, sentCount, drainTimers, cycles, jobs,
                 sentLog, dropped, flooded, reconnectAttempts, recon,
                 handlerRegistered, lastLoaded, starts, startChain, exhausted>>

(***************************************************************************)
(* The ingestion and delivery pipeline                                     *)
(***************************************************************************)
Next ==
  \/ ServiceStart
  \/ ServiceStop
  \/ PollTick
  \/ \E s \in ScanIds : ScanFetched(s)
  \/ \E s \in ScanIds : ScanFetchFailed(s)
  \/ \E s \in ScanIds, m \in Msgs : PollFind(s, m)
  \/ \E s \in ScanIds, m \in Msgs : PollInsert(s, m)
  \/ \E s \in ScanIds, m \in Msgs : PollUpdate(s, m)
  \/ \E s \in ScanIds : ScanBatchDone(s)
  \/ \E s \in ScanIds : ScanWake(s)
  \/ \E m \in Msgs : PushEvent(m)
  \/ \E m \in Msgs : PushInsert(m)
  \/ DrainTick
  \/ \E c \in CycleIds : SendAccepted(c)
  \/ \E c \in CycleIds : SendMarked(c)

\* both ingestion paths and the queue processor, under every send policy
\* and a sink that accepts every send
Spec == Init /\ [][Next]_vars

(***************************************************************************)
(* The queue processor against a sink that may answer FLOOD_WAIT or fail   *)
(***************************************************************************)
\* every configured group is active and the message has a code and a URL
InitQueue ==
  /\ settings \in QueueSettings
  /\ targetGroups = [g \in Groups |-> TRUE]
  /\ texts = OneText(CodeAndUrlText)
  /\ Constructed

NextQueue ==
  \/ ServiceStart
  \/ ServiceStop
  \/ \E m \in Msgs : PushEvent(m)
  \/ \E m \in Msgs : PushInsert(m)
  \/ \E s \in ScanIds : ScanFetchFailed(s)
  \/ \E s \in ScanIds : ScanWake(s)
  \/ DrainTick
  \/ \E c \in CycleIds : SendAccepted(c)
  \/ \E c \in CycleIds : SendMarked(c)
  \/ \E c \in CycleIds : SendFlood(c)
  \/ \E c \in CycleIds : SendError(c)
  \/ \E c \in CycleIds : SendMarkFailed(c)
  \/ \E c \in CycleIds : DrainWake(c)

SpecQueue == InitQueue /\ [][NextQueue]_vars

\* the sink answers a send one way or another, and the store answers the
\* findByIdAndUpdate that follows an accepted send
SendAnswers ==
  \E c \in CycleIds : SendAccepted(c) \/ SendFlood(c) \/ SendError(c)

MarkAnswers == \E c \in CycleIds : SendMarked(c) \/ SendMarkFailed(c)

\* the queue processor with its timers and awaits served: the one-second
\* interval fires, sleeps end, sends and updates are answered
SpecQueueFair ==
  /\ SpecQueue
  /\ WF_vars(DrainTick)
  /\ WF_vars(\E c \in CycleIds : DrainWake(c))
  /\ WF_vars(SendAnswers)
  /\ WF_vars(MarkAnswers)

\* the same queue processor fed by two messages with a code and a URL, so
\* that jobs are enqueued while a cycle runs; the last group is inactive
InitFifo ==
  /\ settings \in QueueSettings
  /\ targetGroups = [g \in Groups |-> g < MaxGroups]
  /\ texts = [m \in Msgs |-> CodeAndUrlText]
  /\ Constructed

SpecFifo == InitFifo /\ [][NextQueue]_vars

(***************************************************************************)
(* The live-push path alone, under every send policy and every kind of     *)
(* event text                                                              *)
(***************************************************************************)
\* "kod kod kod": a keyword, neither a code nor a URL
KeywordOnlyText ==
  << <<"k", "o", "d", " ", "k", "o", "d", " ", "k", "o", "d">> >>

\* "hi" / "x.com": a URL and none of the channel's keywords
NoKeywordText == << <<"h", "i">>, <<"x", ".", "c", "o", "m">> >>

PushTexts ==
  {CodeAndUrlText, UrlOnlyText, KeywordOnlyText, NoKeywordText, NoText}

InitPush ==
  /\ settings \in PolicySettings
  /\ targetGroups = [g \in Groups |-> g < MaxGroups]
  /\ texts \in [Msgs -> PushTexts]
  /\ Constructed

NextPush ==
  \/ ServiceStart
  \/ ServiceStop
  \/ \E s \in ScanIds : ScanFetchFailed(s)
  \/ \E s \in ScanIds : ScanWake(s)
  \/ \E m \in Msgs : PushEvent(m)
  \/ \E m \in Msgs : PushInsert(m)
  \/ DrainTick
  \/ \E c \in CycleIds : SendAccepted(c)
  \/ \E c \in CycleIds : SendMarked(c)

SpecPush == InitPush /\ [][NextPush]_vars

(***************************************************************************)
(* RealTimeListener: start, heartbeat, handleReconnect, stop               *)
(*                                                                         *)
(* recon[r] is the position of one chain of calls: a start() from outside  *)
(* or a handleReconnect() from a heartbeat tick, with the start() and      *)
(* handleReconnect() calls nested in it (each awaits the next and does     *)
(* nothing after it returns):                                              *)
(*   "sleep"    handleReconnect awaits sleep(reconnectDelay)               *)
(*   "connect"  start awaits telegramClient.connect()                      *)
(*   "load"     start awaits loadChannelEntities()                         *)
(* TelegramClient.connect is the collaborator: it connects, returns having *)
(* only scheduled a retry, or throws.                                      *)
(***************************************************************************)
pipelineVars == <<settings, targetGroups, texts, messageDoc, appVars, ingestVars, senderVars,
                  historyVars>>

RunningRecon == {r \in ReconIds : recon[r] # "idle"}
FreeRecon == {r \in ReconIds : recon[r] = "idle"}
LowestFreeRecon == CHOOSE r \in FreeRecon : \A q \in FreeRecon : r <= q

\* chain r returns to its caller: a start() awaited from outside resolves
ChainReturns(r) == startChain' = IF startChain = r THEN 0 ELSE startChain

\* RealTimeListener.stop: the new values of the listener's own fields
ListenerStopped ==
  /\ isListening' = FALSE
  /\ heartbeats' = IF heartbeatInterval THEN heartbeats - 1 ELSE heartbeats
  /\ heartbeatInterval' = FALSE
  /\ channelEntities' = {}

\* start() up to its first await: connect() when the client is not
\* connected, else loadChannelEntities()
StartEntry == IF isConnected THEN "load" ELSE "connect"

\* a handleReconnect without its test
AttemptsExhaustedNever(attempts) == FALSE

\* a test that allows one attempt more
AttemptsExhaustedLate(attempts) == attempts > MaxReconnectAttempts

\* the test at the head of handleReconnect
AttemptsExhausted(attempts) == attempts >= MaxReconnectAttempts

\* handleReconnect() entered by chain r, up to its first await
HandleReconnect(r) ==
  IF AttemptsExhausted(reconnectAttempts)
  THEN /\ ListenerStopped
       /\ exhausted' = TRUE
       /\ recon' = [recon EXCEPT ![r] = "idle"]
       /\ ChainReturns(r)
       /\ UNCHANGED reconnectAttempts
  ELSE /\ reconnectAttempts' = reconnectAttempts + 1
       /\ recon' = [recon EXCEPT ![r] = "sleep"]
       /\ UNCHANGED <<isListening, heartbeats, heartbeatInterval,
                      channelEntities, startChain, exhausted>>

\* start() called from outside (ScraperService.start)
ListenerStart ==
  /\ starts < MaxStarts
  /\ startChain = 0
  /\ FreeRecon # {}
  /\ starts' = starts + 1
  /\ startChain' = LowestFreeRecon
  /\ exhausted' = FALSE
  /\ recon' = [recon EXCEPT ![LowestFreeRecon] = StartEntry]
  /\ UNCHANGED <<pipelineVars, isConnected, isListening, channelEntities,
                 heartbeatInterval, heartbeats, reconnectAttempts,
                 handlerRegistered, lastLoaded>>

\* connect() resolves, connected or not: start goes on to load the channels
ConnectReturns(r, connected) ==
  /\ recon[r] = "connect"
  /\ isConnected' = connected
  /\ recon' = [recon EXCEPT ![r] = "load"]
  /\ UNCHANGED <<pipelineVars, isListening, channelEntities,
                 heartbeatInterval, heartbeats, reconnectAttempts,
                 handlerRegistered, lastLoaded, starts, startChain, exhausted>>

\* connect() throws: the catch of start calls handleReconnect
ConnectThrows(r) ==
  /\ recon[r] = "connect"
  /\ HandleReconnect(r)
  /\ UNCHANGED <<pipelineVars, isConnected, handlerRegistered, lastLoaded, starts>>

\* a load that puts every channel in the map, resolved or not
LoadEntitiesAll(entities, loaded) == entities \cup LiveChannels

\* channelEntities.set(...) for each channel that getChannelEntity resolved
LoadEntities(entities, loaded) == entities \cup loaded

\* loadChannelEntities resolves with the channels it could resolve
\* (getChannelEntity connects first when the client is not connected, and
\* its failure is caught per channel); start registers the handler, sets
\* isListening, resets the counter and starts the heartbeat
StartCompletes(r, loaded, connected) ==
  /\ recon[r] = "load"
  /\ heartbeats < MaxTimers
  /\ isConnected' = (isConnected \/ connected)
  /\ loaded # {} => isConnected'
  /\ channelEntities' = LoadEntities(channelEntities, loaded)
  /\ lastLoaded' = loaded
  /\ handlerRegistered' = TRUE
  /\ isListening' = TRUE
  /\ reconnectAttempts' = 0
  /\ heartbeatInterval' = TRUE
  /\ heartbeats' = heartbeats + 1
  /\ recon' = [recon EXCEPT ![r] = "idle"]
  /\ ChainReturns(r)
  /\ UNCHANGED <<pipelineVars, starts, exhausted>>

\* a heartbeat that never takes the connection for alive
HeartbeatAliveNever == FALSE

\* the condition under which the heartbeat callback only logs
HeartbeatAlive == isListening /\ isConnected

\* a heartbeat interval fires while the connection is alive
HeartbeatOk ==
  /\ heartbeats > 0
  /\ HeartbeatAlive
  /\ UNCHANGED vars

\* a heartbeat interval fires and calls handleReconnect
HeartbeatReconnect ==
  /\ heartbeats > 0
  /\ ~HeartbeatAlive
  /\ FreeRecon # {}
  /\ HandleReconnect(LowestFreeRecon)
  /\ UNCHANGED <<pipelineVars, isConnected, handlerRegistered, lastLoaded, starts>>

\* sleep(reconnectDelay) ends: handleReconnect calls stop() and start()
ReconnectWake(r) ==
  /\ recon[r] = "sleep"
  /\ ListenerStopped
  /\ recon' = [recon EXCEPT ![r] = StartEntry]
  /\ UNCHANGED <<pipelineVars, isConnected, reconnectAttempts,
                 handlerRegistered, lastLoaded, starts, startChain, exhausted>>

\* stop() called from outside (ScraperService.stop, which then disconnects
\* the client)
ListenerStop ==
  /\ starts > 0
  /\ startChain = 0
  /\ stops < MaxStops
  /\ stops' = stops + 1
  /\ ListenerStopped
  /\ isConnected' = FALSE
  /\ UNCHANGED <<settings, targetGroups, texts, messageDoc, appVars, ingestVars, senderVars, jobs,
                 sentLog, discarded, dropped, flooded, reconnectAttempts,
                 recon, handlerRegistered, lastLoaded, starts, startChain, exhausted>>

\* a connect() of the client that is still pending succeeds: the one
\* ScraperService.start awaits before it starts the listener, or the retry
\* that handleConnectionError scheduled
ClientConnected ==
  /\ stops = 0
  /\ ~isConnected
  /\ isConnected' = TRUE
  /\ UNCHANGED <<pipelineVars, isListening, channelEntities,
                 heartbeatInterval, heartbeats, reconnectAttempts, recon,
                 handlerRegistered, lastLoaded, starts, startChain, exhausted>>

InitListener ==
  /\ settings \in QueueSettings
  /\ settings.batchSize = 1
  /\ settings.sendDelay = 0
  /\ targetGroups = [g \in Groups |-> TRUE]
  /\ texts = OneText(CodeAndUrlText)
  /\ Constructed

NextListener ==
  \/ ClientConnected
  \/ ListenerStart
  \/ ListenerStop
  \/ HeartbeatOk
  \/ HeartbeatReconnect
  \/ \E r \in ReconIds :
       \/ \E connected \in BOOLEAN : ConnectReturns(r, connected)
       \/ ConnectThrows(r)
       \/ \E loaded \in SUBSET LiveChannels, connected \in BOOLEAN :
            StartCompletes(r, loaded, connected)
       \/ ReconnectWake(r)

SpecListener == InitListener /\ [][NextListener]_vars

\* a pending connect() settles and a sleep(reconnectDelay) ends: both are
\* timers or network answers that the event loop delivers
ConnectSettles ==
  \E r \in ReconIds : \/ \E connected \in BOOLEAN : ConnectReturns(r, connected)
                       \/ ConnectThrows(r)

SleepEnds == \E r \in ReconIds : ReconnectWake(r)

SpecListenerFair ==
  SpecListener /\ WF_vars(ConnectSettles) /\ WF_vars(SleepEnds)

(***************************************************************************)
(* The poll batches against a store and an enqueue that may fail           *)
(***************************************************************************)
\* a catch that logs nothing
ReportedNowhere(log, m) == log

\* console.error of the catch of processMessage (and of the catch of
\* sendToTargetGroups): the error of message m is in the log
Reported(log, m) == [log EXCEPT ![m] = @ + 1]

\* the catch of processMessage for an error whose code is not 11000: the
\* error is logged and processMessage returns undefined
TaskFailed(s, m) ==
  /\ errorLog[m] < MaxErrors
  /\ tasks' = [tasks EXCEPT ![s][m] =
       [pc |-> "done", doc |-> tasks[s][m].doc, result |-> "failed"]]
  /\ errorLog' = Reported(errorLog, m)

\* Message.findOne rejects
PollFindFailed(s, m) ==
  /\ tasks[s][m].pc = "find"
  /\ TaskFailed(s, m)
  /\ UNCHANGED <<settings, targetGroups, texts, messageDoc, startPc,
                 retryCount, connectFailed, store, isRunning, intervalId,
                 scans, pushTasks, pushes, senderVars, historyVars,
                 listenerVars>>

\* messageDoc.save() of the new document rejects with an error that is no
\* duplicate key
PollInsertFailed(s, m) ==
  /\ tasks[s][m].pc = "insert"
  /\ TaskFailed(s, m)
  /\ UNCHANGED <<settings, targetGroups, texts, messageDoc, startPc,
                 retryCount, connectFailed, store, isRunning, intervalId,
                 scans, pushTasks, pushes, senderVars, historyVars,
                 listenerVars>>

\* the save after processed = true rejects
PollUpdateFailed(s, m) ==
  /\ tasks[s][m].pc = "update"
  /\ TaskFailed(s, m)
  /\ UNCHANGED <<settings, targetGroups, texts, messageDoc, startPc,
                 retryCount, connectFailed, store, isRunning, intervalId,
                 scans, pushTasks, pushes, senderVars, historyVars,
                 listenerVars>>

\* sendToTargetGroups throws inside its loop after k items were pushed
\* (formatMessage on a group's template): its own catch logs the error and
\* it returns normally
sendToTargetGroupsFails(d, m, k) ==
  /\ errorLog[m] < MaxErrors
  /\ k < Len(NewJobs(groupEntities, d, "poll"))
  /\ jobs' = jobs \o SubSeq(NewJobs(groupEntities, d, "poll"), 1, k)
  /\ sendQueue' = sendQueue \o [i \in 1..k |-> Len(jobs) + i]
  /\ errorLog' = Reported(errorLog, m)

\* findOne answers with a deliverable, unprocessed document and the
\* enqueue fails: processMessage goes on to save processed = true
PollFindEnqueueFailed(s, m, k) ==
  /\ tasks[s][m].pc = "find"
  /\ LET d == findOne(store, m, ChannelUsername)
     IN /\ d # 0
        /\ ExistingUnsent(store[d])
        /\ PollShouldSend(store[d])
        /\ sendToTargetGroupsFails(d, m, k)
        /\ tasks' = [tasks EXCEPT ![s][m] =
             [pc |-> "update", doc |-> d, result |-> "none"]]
  /\ UNCHANGED <<settings, targetGroups, texts, messageDoc, startPc,
                 retryCount, connectFailed, store, isRunning, intervalId,
                 scans, pushTasks, pushes, groupEntities, isProcessingQueue,
                 sentCount, drainTimers, cycles, sentLog, discarded, dropped,
                 flooded, stops, listenerVars>>

\* the new document is saved and the enqueue fails: processMessage goes on
\* to save processed = true
PollInsertEnqueueFailed(s, m, k) ==
  /\ tasks[s][m].pc = "insert"
  /\ ~DuplicateKey(store, NewDoc(m))
  /\ PollShouldSend(NewDoc(m))
  /\ store' = InsertDoc(store, NewDoc(m))
  /\ sendToTargetGroupsFails(Len(store) + 1, m, k)
  /\ tasks' = [tasks EXCEPT ![s][m] =
       [pc |-> "update", doc |-> Len(store) + 1, result |-> "none"]]
  /\ UNCHANGED <<settings, targetGroups, texts, messageDoc, startPc,
                 retryCount, connectFailed, isRunning, intervalId, scans,
                 pushTasks, pushes, groupEntities, isProcessingQueue,
                 sentCount, drainTimers, cycles, sentLog, discarded, dropped,
                 flooded, stops, listenerVars>>

\* Promise.allSettled of a batch resolves and the loop of scrapeChannel
\* takes the next batch
ScanNextBatch(s) ==
  /\ scans[s].pc = "batch"
  /\ \A m \in Msgs : tasks[s][m].pc \in {"idle", "done"}
  /\ Pending(s) # {}
  /\ tasks' = [tasks EXCEPT ![s] = StartBatch(s)]
  /\ UNCHANGED <<settings, targetGroups, texts, messageDoc, appVars, store,
                 isRunning, intervalId, scans, pushTasks, pushes, senderVars,
                 historyVars, listenerVars>>

\* the poll interval fires while no scan is running, as it does when a
\* scan is shorter than checkInterval
PollTickAlone ==
  /\ FreeScans = ScanIds
  /\ PollTick

\* every message has a text
InitBatch ==
  /\ settings \in BatchSettings
  /\ targetGroups = [g \in Groups |-> g < MaxGroups]
  /\ texts \in [Msgs -> Texts]
  /\ Constructed

NextBatches ==
  \/ ServiceStart
  \/ PollTickAlone
  \/ \E s \in ScanIds : ScanFetched(s)
  \/ \E s \in ScanIds : ScanNextBatch(s)
  \/ \E s \in ScanIds, m \in Msgs : PollFind(s, m)
  \/ \E s \in ScanIds, m \in Msgs : PollFindFailed(s, m)
  \/ \E s \in ScanIds, m \in Msgs, k \in 0..MaxGroups :
       PollFindEnqueueFailed(s, m, k)
  \/ \E s \in ScanIds, m \in Msgs : PollInsert(s, m)
  \/ \E s \in ScanIds, m \in Msgs : PollInsertFailed(s, m)
  \/ \E s \in ScanIds, m \in Msgs, k \in 0..MaxGroups :
       PollInsertEnqueueFailed(s, m, k)
  \/ \E s \in ScanIds, m \in Msgs : PollUpdate(s, m)
  \/ \E s \in ScanIds, m \in Msgs : PollUpdateFailed(s, m)
  \/ \E s \in ScanIds : ScanBatchDone(s)
  \/ \E s \in ScanIds : ScanWake(s)

SpecBatch == InitBatch /\ [][NextBatches]_vars

(***************************************************************************)
(* Startup: TelegramScraperApp.start awaiting ScraperService.start         *)
(*                                                                         *)
(* startPc is the await ScraperService.start() is suspended at:            *)
(*   "connect"     telegramClient.connect()                                *)
(*   "initialize"  messageSender.initialize()                              *)
(*   "listener"    realTimeListener.start(), not yet called                *)
(*   "listening"   realTimeListener.start(), running as chain startChain   *)
(*   "running"     isRunning is set and the initial scan has begun         *)
(*   "exit"        start() rejected and the process exited                 *)
(***************************************************************************)
\* the test of handleConnectionError: it throws instead of scheduling a
\* retry
ConnectionErrorThrows(count) == ~(count < maxRetries)

\* index.js calls ScraperService.start, which awaits connect()
AppStart ==
  /\ startPc = "idle"
  /\ startPc' = "connect"
  /\ UNCHANGED <<settings, targetGroups, texts, messageDoc, retryCount,
                 connectFailed, errorLog, ingestVars, senderVars,
                 historyVars, listenerVars>>

\* client.connect() of the connect() that start awaits resolves
InitialConnectOk ==
  /\ startPc = "connect"
  /\ isConnected' = TRUE
  /\ retryCount' = 0
  /\ startPc' = "initialize"
  /\ UNCHANGED <<settings, targetGroups, texts, messageDoc, connectFailed,
                 errorLog, ingestVars, senderVars, historyVars, isListening,
                 channelEntities, heartbeatInterval, heartbeats,
                 reconnectAttempts, recon, handlerRegistered, lastLoaded, starts,
                 startChain, exhausted>>

\* client.connect() of the connect() that start awaits rejects:
\* handleConnectionError schedules a retry and connect() returns, or it
\* throws, start rethrows and index.js exits the process
InitialConnectFails ==
  /\ startPc = "connect"
  /\ connectFailed' = TRUE
  /\ IF ConnectionErrorThrows(retryCount)
     THEN /\ startPc' = "exit"
          /\ UNCHANGED retryCount
     ELSE /\ startPc' = "initialize"
          /\ retryCount' = retryCount + 1
  /\ UNCHANGED <<settings, targetGroups, texts, messageDoc, errorLog,
                 ingestVars, senderVars, historyVars, listenerVars>>

\* the connect() that handleConnectionError scheduled succeeds
RetryConnects ==
  /\ retryCount > 0
  /\ ~isConnected
  /\ startPc # "exit"
  /\ stops = 0
  /\ isConnected' = TRUE
  /\ retryCount' = 0
  /\ UNCHANGED <<settings, targetGroups, texts, messageDoc, startPc,
                 connectFailed, errorLog, ingestVars, senderVars,
                 historyVars, isListening, channelEntities,
                 heartbeatInterval, heartbeats, reconnectAttempts, recon,
                 handlerRegistered, lastLoaded, starts, startChain, exhausted>>

\* MessageSender.initialize: loadGroupEntities asks getChannelEntity for
\* each active group, which calls connect() first while the client is not
\* connected; failed of these connects fail before one succeeds, a group
\* is loaded only once the client is connected, and a failure is caught
\* per group. Then startQueueProcessor sets the drain interval.
Initialize(failed, loaded) ==
  LET active == ActiveGroups(ConfiguredGroups)
  IN /\ startPc = "initialize"
     /\ failed \in 0..Len(active)
     /\ isConnected => failed = 0
     /\ loaded \in SubSeqs(SubSeq(active, failed + 1, Len(active)))
     /\ isConnected' = (failed < Len(active))
     /\ retryCount' = IF isConnected THEN retryCount
                      ELSE IF failed < Len(active) THEN 0
                      ELSE Min(maxRetries, retryCount + failed)
     /\ groupEntities' = loaded
     /\ drainTimers' = drainTimers + 1
     /\ startPc' = "listener"
     /\ UNCHANGED <<settings, targetGroups, texts, messageDoc, connectFailed,
                    errorLog, ingestVars, sendQueue, isProcessingQueue,
                    sentCount, cycles, historyVars, isListening,
                    channelEntities, heartbeatInterval, heartbeats,
                    reconnectAttempts, recon, handlerRegistered, lastLoaded, starts,
                    startChain, exhausted>>

\* start awaits realTimeListener.start()
StartListener ==
  /\ startPc = "listener"
  /\ startPc' = "listening"
  /\ starts' = starts + 1
  /\ startChain' = LowestFreeRecon
  /\ exhausted' = FALSE
  /\ recon' = [recon EXCEPT ![LowestFreeRecon] = StartEntry]
  /\ UNCHANGED <<settings, targetGroups, texts, messageDoc, retryCount,
                 connectFailed, errorLog, ingestVars, senderVars,
                 historyVars, isConnected, isListening, channelEntities,
                 heartbeatInterval, heartbeats, reconnectAttempts,
                 handlerRegistered, lastLoaded>>

\* realTimeListener.start() has resolved: isRunning = true, and the initial
\* scrapeAllChannels requests the channel's messages
StartRuns ==
  /\ startPc = "listening"
  /\ startChain = 0
  /\ startPc' = "running"
  /\ isRunning' = TRUE
  /\ scans' = [scans EXCEPT ![1] = [pc |-> "fetch", initial |-> TRUE]]
  /\ UNCHANGED <<settings, targetGroups, texts, messageDoc, retryCount,
                 connectFailed, errorLog, store, intervalId, tasks,
                 pushTasks, pushes, senderVars, historyVars, listenerVars>>

InitStartup ==
  /\ settings \in PolicySettings
  /\ targetGroups = [g \in Groups |-> g < MaxGroups]
  /\ \E t \in Texts : texts = OneText(t)
  /\ Constructed

NextStartup ==
  \/ AppStart
  \/ InitialConnectOk
  \/ InitialConnectFails
  \/ RetryConnects
  \/ \E failed \in 0..MaxGroups,
        loaded \in SubSeqs(ActiveGroups(ConfiguredGroups)) :
       Initialize(failed, loaded)
  \/ StartListener
  \/ StartRuns
  \/ HeartbeatOk
  \/ HeartbeatReconnect
  \/ \E r \in ReconIds :
       \/ \E connected \in BOOLEAN : ConnectReturns(r, connected)
       \/ ConnectThrows(r)
       \/ \E loaded \in SUBSET LiveChannels, connected \in BOOLEAN :
            StartCompletes(r, loaded, connected)
       \/ ReconnectWake(r)
  \/ PollTick
  \/ \E s \in ScanIds : ScanFetchFailed(s)
  \/ \E s \in ScanIds : ScanWake(s)

SpecStartup == InitStartup /\ [][NextStartup]_vars

(***************************************************************************)
(* extractData on its own: every text of up to MaxLines lines              *)
(***************************************************************************)
\* the lines a text is made of:
\*   BTABCDBT         one priority code
\*   BTEF12BT BTGH34BT two priority codes
\*   KOD-1!           a fallback code once stripped
\*   WXYZ9            a fallback code
\*   ab               too short for a code
\*   http://x.com     a URL taken verbatim
\*   go y.net         a domain inside a line
\*   .com             a URL marker and no domain
\*   BTQRSTBT z.org   a priority code and a domain
\*   (blank)          a blank line
\*   BTABBT           a delimited span that is too short
\*   a.tr             a domain whose suffix is no URL marker
ExtractLines ==
  {
    <<Backtick, "A", "B", "C", "D", Backtick>>,
    <<Backtick, "E", "F", "1", "2", Backtick, " ", Backtick, "G", "H", "3", "4", Backtick>>,
    <<"K", "O", "D", "-", "1", "!">>,
    <<"W", "X", "Y", "Z", "9">>,
    <<"a", "b">>,
    <<"h", "t", "t", "p", ":", "/", "/", "x", ".", "c", "o", "m">>,
    <<"g", "o", " ", "y", ".", "n", "e", "t">>,
    <<".", "c", "o", "m">>,
    <<Backtick, "Q", "R", "S", "T", Backtick, " ", "z", ".", "o", "r", "g">>,
    <<" ">>,
    <<Backtick, "A", "B", Backtick>>,
    <<"a", ".", "t", "r">>
  }

ExtractTexts == UNION {[1..n -> ExtractLines] : n \in 0..MaxLines}

\* new Message({text, ...}) and messageDoc.extractData() of processMessage
\* and of processRealTimeMessage, before the document is saved
Extract(m) ==
  /\ messageDoc = Null
  /\ messageDoc' = extractData(texts[m])
  /\ UNCHANGED <<settings, targetGroups, texts, appVars, ingestVars,
                 senderVars, historyVars, listenerVars>>

InitExtract ==
  /\ settings \in QueueSettings
  /\ settings.batchSize = 1
  /\ settings.sendDelay = 0
  /\ targetGroups = [g \in Groups |-> TRUE]
  /\ \E t \in ExtractTexts : texts = [m \in Msgs |-> t]
  /\ Constructed

NextExtract == \E m \in Msgs : Extract(m)

SpecExtract == InitExtract /\ [][NextExtract]_vars

(***************************************************************************)
(* Properties                                                              *)
(***************************************************************************)
\* the uniqueness key of a stored document
KeyOf(d) == <<store[d].channelId, store[d].messageId>>

\* position of job j in the send log, 0 when it was not sent
SentAt(j) ==
  IF \E i \in 1..Len(sentLog) : sentLog[i] = j
  THEN CHOOSE i \in 1..Len(sentLog) : sentLog[i] = j
  ELSE 0

RunningScans == {s \in ScanIds : scans[s].pc # "idle"}
RunningCycles == {c \in CycleIds : cycles[c].pc # "idle"}

\* C1: a source message is fanned out at most once: over the whole run at
\* most one queue item is ever created for a given message and destination.
C1_FannedOutOnce ==
  \A i, j \in 1..Len(jobs) :
    (KeyOf(jobs[i].doc) = KeyOf(jobs[j].doc) /\ jobs[i].group = jobs[j].group)
      => i = j

\* C2: with the queue holding A, B, C (jobs 1, 2, 3) and the send of A
\* answered FLOOD_WAIT, neither B nor C is sent before A has been sent,
\* whatever the batch size (A not being given up or cleared meanwhile).
C2_RequeuedJobSentFirst ==
  (Len(jobs) = 3 /\ 1 \in flooded /\ 1 \notin dropped /\ 1 \notin discarded)
    => \A k \in {2, 3} :
         SentAt(k) # 0 => (SentAt(1) # 0 /\ SentAt(1) < SentAt(k))

\* an insert attempt of the poll or the push path ends on the duplicate key
LostInsert ==
  \/ \E s \in ScanIds, m \in Msgs :
       tasks[s][m].result # "duplicate" /\ tasks'[s][m].result = "duplicate"
  \/ \E m \in Msgs :
       pushTasks[m].result # "duplicate" /\ pushTasks'[m].result = "duplicate"

\* C3: the store never holds two documents with the same (channel, message
\* id) key, and an insert attempt that loses the race ends normally as
\* "duplicate": the document of that key is there exactly once, the store is
\* left as it is and nothing is enqueued.
C3_OneDocumentPerKey ==
  /\ [](\A i, j \in 1..Len(store) : KeyOf(i) = KeyOf(j) => i = j)
  /\ [][LostInsert =>
          /\ store' = store /\ jobs' = jobs /\ sendQueue' = sendQueue
          /\ \A m \in Msgs :
               Cardinality({i \in 1..Len(store) :
                              KeyOf(i) = <<ChannelId, m>>}) <= 1
          /\ \A s \in ScanIds, m \in Msgs :
               tasks'[s][m].result = "duplicate" =>
                 /\ tasks'[s][m].pc = "done"
                 /\ \E i \in 1..Len(store) : KeyOf(i) = <<ChannelId, m>>
          /\ \A m \in Msgs :
               pushTasks'[m].result = "duplicate" =>
                 /\ pushTasks'[m].pc = "done"
                 /\ \E i \in 1..Len(store) : KeyOf(i) = <<ChannelId, m>>]_vars

\* a poll attempt lost the insert race to the push path
C3_Witness ==
  /\ Len(store) = 1
  /\ \E s \in ScanIds, m \in Msgs : tasks[s][m].result = "duplicate"
  /\ \E m \in Msgs : pushTasks[m].result = "saved"

\* C4: once a stored document has processed = true, no step of the poll
\* path, the push path or the queue processor sets it back to false.
C4_ProcessedMonotonic ==
  [][\A d \in 1..Len(store) :
       store[d].processed => (d <= Len(store') /\ store'[d].processed)]_vars

\* the poll path has met a document that was already processed, and the
\* queue processor has marked it
C4_Witness ==
  /\ \E s \in ScanIds, m \in Msgs :
       /\ tasks[s][m].result = "known"
       /\ store[tasks[s][m].doc].processed
  /\ sentCount > 0

\* the stored record has both a code and a URL
Deliverable(d) == store[d].hasBonus /\ store[d].hasWebsite

\* C6 as stated: no queue item is ever created, on either path and under
\* any policy flags, for a message whose record is not deliverable.
C6_OnlyDeliverableEnqueued ==
  \A j \in 1..Len(jobs) : Deliverable(jobs[j].doc)

\* C6 amended: a queue item for a message that is not deliverable is only
\* ever created by the push path with onlyWithBonusCode off; the poll path,
\* and the push path with the flag on, enqueue deliverable messages only.
C6_OnlyDeliverableUnlessLoosePush ==
  \A j \in 1..Len(jobs) :
    ~Deliverable(jobs[j].doc) =>
      (jobs[j].via = "push" /\ ~settings.onlyWithBonusCode)

\* a message with a URL and no code went through both paths with the flag
\* on and groups loaded, and no queue item was created
C6_Witness ==
  /\ settings.onlyWithBonusCode
  /\ groupEntities # <<>>
  /\ Len(store) = 1 /\ ~Deliverable(1)
  /\ \E m \in Msgs : pushTasks[m].result = "saved"
  /\ \E s \in ScanIds, m \in Msgs : tasks[s][m].result = "known"
  /\ jobs = <<>>

\* a processQueue invocation starts in this step
CycleStarts ==
  \E c \in CycleIds : cycles[c].pc = "idle" /\ cycles'[c].pc # "idle"

\* C7: at most one processQueue runs at any time; one starts only on a
\* non-empty queue and only while none is running, also while the running
\* one sleeps its send delay or a flood wait.
C7_OneDrainCycle ==
  /\ [](Cardinality(RunningCycles) <= 1)
  /\ [][CycleStarts => (sendQueue # <<>> /\ RunningCycles = {})]_vars

\* a cycle sleeps a flood wait with items queued and the interval live
C7_Witness ==
  /\ drainTimers > 0
  /\ sendQueue # <<>>
  /\ \E c \in CycleIds : cycles[c].pc = "flood"

\* C8: at most one scrapeAllChannels runs at any time: a poll tick that
\* fires while an invocation is still running starts no second one.
C8_OneScan == Cardinality(RunningScans) <= 1

\* C10: MessageSender.stop leaves sendQueue and groupEntities empty and
\* leaves sentCount, the documents and the send log as they were; the items
\* it cleared are never sent.
C10_StopDiscards ==
  /\ [](\A j \in discarded : SentAt(j) = 0)
  /\ [][stops' # stops =>
          /\ sendQueue' = <<>> /\ groupEntities' = <<>>
          /\ discarded' = discarded \cup JobsOf(sendQueue)
          /\ sentCount' = sentCount /\ store' = store
          /\ sentLog' = sentLog]_vars

\* stop() cleared queued items while others had been sent
C10_Witness ==
  /\ stops > 0 /\ discarded # {} /\ sentLog # <<>>
  /\ sendQueue = <<>> /\ groupEntities = <<>>

\* C5: once handleReconnect has given up, and until start() is called from
\* outside, no chain enters start() and the listener does not return to
\* listening, whatever heartbeat ticks and pending reconnect waits remain.
C5_NoConnectAfterGivingUp ==
  [][(exhausted /\ exhausted') =>
       /\ ~isListening'
       /\ \A r \in ReconIds :
            recon[r] \in {"idle", "sleep"} => recon'[r] \in {"idle", "sleep"}]_vars

\* C9: a heartbeat tick starts a reconnect only when no reconnect started by
\* an earlier tick is still in progress.
C9_OneReconnect ==
  [][(\E r \in ReconIds : recon[r] = "idle" /\ recon'[r] = "sleep")
       => RunningRecon = {}]_vars

\* a processQueue invocation begins the send of an item in this step
SendBegins ==
  \E c \in CycleIds :
    /\ cycles'[c].pc = "send"
    /\ cycles[c].pc # "send" \/ cycles'[c].batch # cycles[c].batch

\* C11: once MessageSender.stop has been called, no processQueue starts, no
\* send is begun (only one already underway may complete), and the queue,
\* empty after stop, stays empty as long as nothing is enqueued.
C11_StopCancelsDrain ==
  /\ [][stops > 0 => ~CycleStarts]_vars
  /\ [][stops > 0 => ~SendBegins]_vars
  /\ [][(stops > 0 /\ sendQueue = <<>> /\ jobs' = jobs)
          => sendQueue' = <<>>]_vars

\* the cycles that await findByIdAndUpdate after their send was accepted
Marking == {c \in CycleIds : cycles[c].pc = "mark"}

\* C12: sentCount never decreases and grows by one at a time; it equals the
\* number of accepted sends, those still awaiting their document update
\* aside; and the document of every accepted send whose update is no longer
\* awaited has processed = true.
C12_SentCounted ==
  /\ [](sentCount + Cardinality(Marking) = Len(sentLog))
  /\ [](\A i \in 1..Len(sentLog) :
          (\A c \in Marking : Head(cycles[c].batch) # sentLog[i])
            => store[jobs[sentLog[i]].doc].processed)
  /\ [][sentCount' \in {sentCount, sentCount + 1}]_vars

\* the loaded destinations whose active flag is true, in map order
LoadedActive == SelectSeq(groupEntities, LAMBDA g : targetGroups[g])

DocsOf(m) == {d \in 1..Len(store) : store[d].messageId = m}

\* the jobs ever created for source message m
JobsFor(m) == {j \in 1..Len(jobs) : jobs[j].doc \in DocsOf(m)}

\* C14: a message with one priority code and one URL line is stored as at
\* most one document, with hasBonus and hasWebsite true; at most one job is
\* created for it per destination; and once all its jobs have been sent and
\* marked, the document has processed = true and no job of it is queued.
C14_EndToEnd ==
  \A m \in Msgs :
    texts[m] = CodeAndUrlText =>
      /\ Cardinality(DocsOf(m)) <= 1
      /\ \A d \in DocsOf(m) : store[d].hasBonus /\ store[d].hasWebsite
      /\ \A g \in Groups :
           Cardinality({j \in JobsFor(m) : jobs[j].group = g}) <= 1
      /\ (/\ JobsFor(m) # {}
          /\ \A j \in JobsFor(m) : SentAt(j) # 0
          /\ Marking = {})
           => /\ \A d \in DocsOf(m) : store[d].processed
              /\ JobsOf(sendQueue) \cap JobsFor(m) = {}

\* C15 as stated: after extractData the two flags are equal, and without
\* both a code and a URL both are false and the primary code is cleared.
C15_FlagsEqual ==
  messageDoc # Null =>
    /\ messageDoc.hasBonus = messageDoc.hasWebsite
    /\ ~messageDoc.hasBonus => messageDoc.bonusCode = Null

\* C15 amended: after extractData hasBonus is true exactly when a code and a
\* URL were found, and otherwise the primary code is cleared; hasWebsite is
\* true exactly when a URL was found, also when no code was.
C15_HasBonusNeedsBoth ==
  messageDoc # Null =>
    /\ messageDoc.hasBonus =
         (messageDoc.allBonusCodes # <<>> /\ messageDoc.websiteUrl # Null)
    /\ messageDoc.hasBonus => messageDoc.hasWebsite
    /\ ~messageDoc.hasBonus => messageDoc.bonusCode = Null
    /\ messageDoc.hasWebsite = (messageDoc.websiteUrl # Null)

\* extractData found a URL and no code
C15_Witness ==
  /\ messageDoc # Null
  /\ messageDoc.websiteUrl # Null /\ messageDoc.allBonusCodes = <<>>
  /\ messageDoc.hasWebsite /\ ~messageDoc.hasBonus

\* the text has a priority code, or a line without backtick and without URL
\* marker whose alphanumeric characters number 4 to 20
CandidateFound(text) ==
  \/ FirstPass(NonEmptyLines(text)) # <<>>
  \/ \E i \in 1..Len(text) :
       /\ ~includes(trim(text[i]), <<Backtick>>)
       /\ ~HasUrlMarker(trim(text[i]))
       /\ Len(StripNonAlnum(trim(text[i]))) \in 4..20

\* line gives a URL: it starts with http, or has a URL marker and a domain
YieldsUrl(line) ==
  \/ startsWith(trim(line), http)
  \/ HasUrlMarker(trim(line)) /\ DomainMatch(trim(line), 1) # Null

\* C16: for a text in which a code candidate is found and no line gives a
\* URL, extractData leaves hasBonus false and bonusCode null, while
\* allBonusCodes keeps the candidates found.
C16_CodeWithoutUrlCollapses ==
  \A m \in Msgs :
    (/\ messageDoc # Null
     /\ CandidateFound(texts[m])
     /\ \A i \in 1..Len(texts[m]) : ~YieldsUrl(texts[m][i]))
      => /\ ~messageDoc.hasBonus
         /\ messageDoc.bonusCode = Null
         /\ messageDoc.allBonusCodes # <<>>
         /\ messageDoc.allBonusCodes = Passes(texts[m]).codes

\* extractData ran on a text with two priority codes, a line with a URL
\* marker that gives no URL, and no URL
C16_Witness ==
  /\ messageDoc # Null
  /\ Len(messageDoc.allBonusCodes) >= 2
  /\ messageDoc.websiteUrl = Null
  /\ \E m \in Msgs : \E i \in 1..Len(texts[m]) : HasUrlMarker(texts[m][i])

\* line is one that the fallback branch would turn into a code
FallbackLine(line) ==
  /\ ~includes(trim(line), <<Backtick>>)
  /\ ~HasUrlMarker(trim(line))
  /\ Len(StripNonAlnum(trim(line))) \in 4..20

\* C17: for a text with at least one priority code, allBonusCodes is the
\* list of the priority codes, line by line and left to right, each of them
\* standing between backticks in some line; the second pass adds no
\* fallback code; and when a URL is found the primary code is the first
\* priority code.
C17_PriorityCodesOnly ==
  \A m \in Msgs :
    (messageDoc # Null /\ FirstPass(NonEmptyLines(texts[m])) # <<>>)
      => /\ messageDoc.allBonusCodes = FirstPass(NonEmptyLines(texts[m]))
         /\ \A k \in 1..Len(messageDoc.allBonusCodes) :
              \E i \in 1..Len(texts[m]) :
                includes(texts[m][i],
                         <<Backtick>> \o messageDoc.allBonusCodes[k]
                           \o <<Backtick>>)
         /\ messageDoc.websiteUrl # Null
              => /\ messageDoc.hasBonus
                 /\ messageDoc.bonusCode =
                      FirstPass(NonEmptyLines(texts[m]))[1]

\* extractData ran on a text with a fallback line ahead of two priority
\* codes and with a URL
C17_Witness ==
  /\ messageDoc # Null
  /\ messageDoc.websiteUrl # Null
  /\ Len(messageDoc.allBonusCodes) >= 2
  /\ \E m \in Msgs :
       /\ Len(texts[m]) >= 2
       /\ FallbackLine(texts[m][1])
       /\ FirstPass(NonEmptyLines(texts[m])) # <<>>

\* the URL a line gives by itself, Null when it gives none
UrlOf(line) ==
  IF startsWith(trim(line), http) THEN trim(line)
  ELSE IF HasUrlMarker(trim(line)) /\ DomainMatch(trim(line), 1) # Null
       THEN httpsPrefix \o DomainMatch(trim(line), 1)
       ELSE Null

\* the indexes of the lines with a URL marker, and of those that give a URL
MarkerLines(text) == {i \in 1..Len(text) : HasUrlMarker(trim(text[i]))}
UrlLines(text) == {i \in 1..Len(text) : YieldsUrl(text[i])}

Last(S) == CHOOSE i \in S : \A k \in S : k <= i

\* C18 as stated: for a text with two or more lines that hold a URL marker,
\* websiteUrl is the URL of the last of these lines.
C18_LastMarkerLineWins ==
  \A m \in Msgs :
    (messageDoc # Null /\ Cardinality(MarkerLines(texts[m])) >= 2)
      => messageDoc.websiteUrl = UrlOf(texts[m][Last(MarkerLines(texts[m]))])

\* C18 amended: for a text with two or more lines that hold a URL marker,
\* websiteUrl is the URL of the last line that gives one (it starts with
\* http or holds a domain); a later marker line that gives no URL leaves it.
C18_LastUrlWins ==
  \A m \in Msgs :
    (messageDoc # Null /\ Cardinality(MarkerLines(texts[m])) >= 2)
      => messageDoc.websiteUrl =
           IF UrlLines(texts[m]) = {} THEN Null
           ELSE UrlOf(texts[m][Last(UrlLines(texts[m]))])

\* extractData ran on a text whose two URLs differ and whose last marker
\* line gives none
C18_Witness ==
  /\ messageDoc # Null
  /\ \E m \in Msgs :
       /\ Cardinality(UrlLines(texts[m])) >= 2
       /\ \E i, k \in UrlLines(texts[m]) :
            UrlOf(texts[m][i]) # UrlOf(texts[m][k])
       /\ Last(MarkerLines(texts[m])) \notin UrlLines(texts[m])

\* line holds no http, .com, .net or .org, and stripped of everything but
\* letters and digits it is shorter than 4 or longer than 20
PlainLine(line) ==
  /\ ~includes(line, <<"h", "t", "t", "p">>)
  /\ ~includes(line, <<".", "c", "o", "m">>)
  /\ ~includes(line, <<".", "n", "e", "t">>)
  /\ ~includes(line, <<".", "o", "r", "g">>)
  /\ Len(StripNonAlnum(line)) \notin 4..20

\* C19: for a text without priority code, without a line of 4 to 20
\* alphanumeric characters once stripped, and without URL marker,
\* extractData leaves hasBonus and hasWebsite false, bonusCode and
\* websiteUrl null.
C19_NothingFound ==
  \A m \in Msgs :
    (/\ messageDoc # Null
     /\ FirstPass(NonEmptyLines(texts[m])) = <<>>
     /\ \A i \in 1..Len(texts[m]) : PlainLine(texts[m][i]))
      => /\ ~messageDoc.hasBonus /\ ~messageDoc.hasWebsite
         /\ messageDoc.bonusCode = Null /\ messageDoc.websiteUrl = Null

\* extractData ran on such a text, one with a backtick span that is too
\* short and with a domain whose suffix is no URL marker
C19_Witness ==
  /\ messageDoc # Null
  /\ \E m \in Msgs :
       /\ FirstPass(NonEmptyLines(texts[m])) = <<>>
       /\ \A i \in 1..Len(texts[m]) : PlainLine(texts[m][i])
       /\ \E i \in 1..Len(texts[m]) : includes(texts[m][i], <<Backtick>>)
       /\ \E i \in 1..Len(texts[m]) : DomainMatch(texts[m][i], 1) # Null

\* C20: a job whose send fails with an error that is no FLOOD_WAIT is in
\* the queue again after the step that handles the failure.
C20_FailedSendRequeued ==
  [][\A j \in dropped' \ dropped :
       SentAt(j) = 0 => j \in JobsOf(sendQueue')]_vars

\* C21: once the connect() that ScraperService.start awaits has failed,
\* start() has rejected and the process has exited, isRunning is false, and
\* no scan, no drain interval, no poll interval and no live listener has
\* been started.
C21_FailedConnectIsFatal ==
  connectFailed =>
    /\ startPc = "exit"
    /\ ~isRunning /\ ~intervalId /\ RunningScans = {}
    /\ drainTimers = 0
    /\ ~isListening /\ heartbeats = 0 /\ ~handlerRegistered

\* C22: a step in which the processing of one message logs an error
\* changes no other processMessage call and no scan; a call that ends on an
\* error other than the duplicate key has logged it, the duplicate key is
\* not logged; and a scan leaves its batches only by the normal path, after
\* every message was processed.
C22_FailureIsolated ==
  /\ [][\A m \in Msgs :
          errorLog'[m] # errorLog[m] =>
            /\ scans' = scans
            /\ \A t \in ScanIds, n \in Msgs \ {m} : tasks'[t][n] = tasks[t][n]]_vars
  /\ [][\A s \in ScanIds, m \in Msgs :
          tasks[s][m].pc \notin {"idle", "done"} =>
            /\ tasks'[s][m].result = "failed" =>
                 errorLog'[m] = errorLog[m] + 1
            /\ tasks'[s][m].result = "duplicate" => errorLog' = errorLog]_vars
  /\ [][\A s \in ScanIds :
          (scans[s].pc = "batch" /\ scans'[s].pc # "batch") =>
            /\ scans'[s].pc = "sleep"
            /\ \A m \in Msgs : tasks[s][m].pc = "done"]_vars

\* with one message per batch, the first message failed and the message of
\* the later batch was stored and enqueued
C22_Witness ==
  /\ settings.scrapingBatchSize = 1
  /\ \E s \in ScanIds :
       /\ tasks[s][1].result = "failed"
       /\ tasks[s][2].result = "bonus_sent"

\* the cycles that sleep out a FLOOD_WAIT
Suspended == {c \in CycleIds : cycles[c].pc = "flood"}

\* no send is attempted and no drain cycle begins in this step
NothingSent ==
  /\ sentLog' = sentLog /\ dropped' = dropped /\ flooded' = flooded
  /\ \A c \in CycleIds : cycles[c].pc = "idle" => cycles'[c].pc = "idle"

Attempted(log, failed, limited, j) ==
  \/ \E i \in 1..Len(log) : log[i] = j
  \/ j \in failed
  \/ j \in limited

\* C24: when a job is attempted for the first time, every job enqueued
\* before it has been attempted already or was discarded by stop(), so two
\* jobs that are never rate-limited are attempted in the order they were
\* enqueued; and a drain cycle that begins takes a prefix of the queue of
\* at most batchSize jobs.
C24_FifoAttempts ==
  /\ [][\A j \in 1..Len(jobs) :
          (/\ ~Attempted(sentLog, dropped, flooded, j)
           /\ Attempted(sentLog', dropped', flooded', j))
            => \A i \in 1..(j - 1) :
                 \/ Attempted(sentLog, dropped, flooded, i)
                 \/ i \in discarded]_vars
  /\ [][\A c \in CycleIds :
          (cycles[c].pc = "idle" /\ cycles'[c].pc # "idle") =>
            /\ Len(cycles'[c].batch) <= settings.batchSize
            /\ cycles'[c].batch \o sendQueue' = sendQueue]_vars

\* a cycle that began with the two jobs of the first message, fewer than
\* its batch size, has had the first one rate-limited and requeued, and
\* the two jobs of the second message were enqueued behind it meanwhile
C24_Witness ==
  /\ settings.batchSize = 3
  /\ Len(jobs) = 4 /\ jobs[3].doc # jobs[2].doc
  /\ flooded = {1}
  /\ sendQueue = <<1, 3, 4>>
  /\ \E c \in CycleIds : cycles[c].pc = "send" /\ cycles[c].batch = <<2>>

\* the stripped lines, in line order, that the fallback branch would turn
\* into a code
RECURSIVE FallbackCodes(_)
FallbackCodes(lines) ==
  IF lines = <<>> THEN <<>>
  ELSE (IF FallbackLine(Head(lines))
        THEN <<StripNonAlnum(trim(Head(lines)))>> ELSE <<>>)
       \o FallbackCodes(Tail(lines))

\* C25: for a text without priority code, allBonusCodes lists, in line
\* order, the stripped form of every line that has no URL marker, no
\* backtick, and 4 to 20 alphanumeric characters once stripped.
C25_AllFallbackCodesListed ==
  \A m \in Msgs :
    (/\ messageDoc # Null
     /\ FirstPass(NonEmptyLines(texts[m])) = <<>>)
      => messageDoc.allBonusCodes = FallbackCodes(NonEmptyLines(texts[m]))

\* the processMessage calls of the poll path whose findOne answers in this
\* step
FindAnswers == {p \in ScanIds \X Msgs : /\ tasks[p[1]][p[2]].pc = "find"
                                        /\ tasks'[p[1]][p[2]].pc # "find"}

\* C26: when the poll path finds the message stored with processed = true,
\* or stored unprocessed without both hasBonus and hasWebsite, it ends
\* there: the store, the job list and the queue are unchanged and the call
\* goes on to no insert and no update.
C26_KnownMessageSkipped ==
  [][\A p \in FindAnswers :
       LET d == findOne(store, p[2], ChannelUsername)
       IN (d # 0 /\ (store[d].processed \/ ~Deliverable(d))) =>
            /\ store' = store
            /\ jobs' = jobs /\ sendQueue' = sendQueue
            /\ tasks'[p[1]][p[2]] = [pc |-> "done", doc |-> d,
                                     result |-> "known"]]_vars

\* a scan has found a delivered message and skipped it
C26_Witness ==
  \E s \in ScanIds, m \in Msgs :
    /\ tasks[s][m].result = "known"
    /\ store[tasks[s][m].doc].processed
    /\ Deliverable(tasks[s][m].doc)

\* C27: when the poll path finds the message stored, unprocessed, with
\* hasBonus and hasWebsite, it enqueues one job per loaded active group
\* for the stored document and goes on to the save of processed = true,
\* with no insert and no change to the stored fields; that save sets the
\* flag and nothing else, so the number of documents is unchanged.
C27_StoredMessageRetried ==
  /\ [][\A p \in FindAnswers : \A d \in DocsOf(p[2]) :
          (~store[d].processed /\ Deliverable(d)) =>
            /\ store' = store
            /\ jobs' = jobs \o NewJobs(groupEntities, d, "poll")
            /\ Len(sendQueue') = Len(sendQueue) + Len(jobs') - Len(jobs)
            /\ tasks'[p[1]][p[2]] = [pc |-> "update", doc |-> d,
                                     result |-> "none"]]_vars
  /\ [][\A s \in ScanIds, m \in Msgs :
          (tasks[s][m].pc = "update" /\ tasks'[s][m].pc = "done") =>
            store' = [store EXCEPT ![tasks[s][m].doc].processed = TRUE]]_vars

\* a scan has found the document that the push path stored, and has
\* enqueued it again
C27_Witness ==
  \E s \in ScanIds, m \in Msgs :
    /\ tasks[s][m].pc = "update"
    /\ pushTasks[m].result = "saved"
    /\ pushTasks[m].doc = tasks[s][m].doc
    /\ \E j \in 1..Len(jobs) :
         jobs[j].doc = tasks[s][m].doc /\ jobs[j].via = "poll"

\* a start() of the listener reaches its end in this step: startHeartbeat
\* has set one more interval
StartSucceeds == heartbeats' = heartbeats + 1

\* C28: at the end of a start() that did not fail, isListening is true,
\* reconnectAttempts is 0, the heartbeat interval is live, and
\* channelEntities holds exactly the channels that this start resolved.
C28_StartedListening ==
  [][StartSucceeds =>
       /\ isListening'
       /\ reconnectAttempts' = 0
       /\ heartbeatInterval' /\ heartbeats' > 0
       /\ channelEntities' = lastLoaded']_vars

TickReconnects ==
  \/ \E r \in ReconIds : recon[r] = "idle" /\ recon'[r] = "sleep"
  \/ recon' = recon /\ ~exhausted /\ exhausted'

\* C30: while isListening and the client reports connected, no heartbeat
\* tick enters handleReconnect, so a tick leaves isListening,
\* reconnectAttempts, channelEntities and the interval as they are; while a
\* heartbeat interval is live and not both hold, a tick can enter
\* handleReconnect; and a tick that does so adds one to reconnectAttempts
\* when it is below the maximum, and otherwise stops the listener.
C30_HeartbeatTick ==
  /\ [][TickReconnects =>
          /\ heartbeats > 0
          /\ ~(isListening /\ isConnected)
          /\ IF reconnectAttempts < MaxReconnectAttempts
             THEN /\ reconnectAttempts' = reconnectAttempts + 1
                  /\ isListening' = isListening
                  /\ channelEntities' = channelEntities
                  /\ heartbeatInterval' = heartbeatInterval
             ELSE /\ reconnectAttempts' = reconnectAttempts
                  /\ ~isListening' /\ ~heartbeatInterval'
                  /\ channelEntities' = {}]_vars
  /\ []((heartbeats > 0 /\ isListening /\ isConnected) =>
          ~ENABLED HeartbeatReconnect)
  /\ []((heartbeats > 0 /\ ~(isListening /\ isConnected) /\ FreeRecon # {})
          => ENABLED HeartbeatReconnect)

\* a tick found the listener listening on a client that is not connected
\* and its handleReconnect, the first attempt, sleeps reconnectDelay
C30_Witness ==
  /\ isListening /\ heartbeatInterval /\ ~isConnected
  /\ reconnectAttempts = 1
  /\ \E r \in ReconIds : recon[r] = "sleep"

(***************************************************************************)
(* The live-push path                                                      *)
(***************************************************************************)
\* the event of message m has no text, or its channel is not in the handle
\* map, or its text holds none of the channel's keywords
Discardable(m) ==
  \/ texts[m] = NoText
  \/ ChannelId \notin channelEntities
  \/ \A k \in 1..Len(ChannelKeywords), l \in 1..Len(texts[m]) :
       ~includes(toLowerCase(texts[m][l]), toLowerCase(ChannelKeywords[k]))

\* C31: a push event without text, or from a channel that is not in the
\* handle map (as is every channel after stop() cleared the map), or with
\* none of the channel's keywords, ends in the handler: nothing is inserted,
\* nothing is enqueued, and the sender's and the listener's state are as
\* they were
C31_RejectedPushDiscarded ==
  [][\A m \in Msgs :
       (pushes'[m] = pushes[m] + 1 /\ Discardable(m)) =>
         /\ pushTasks'[m].pc = "done"
         /\ pushTasks'[m].result = "skipped"
         /\ store' = store
         /\ jobs' = jobs
         /\ UNCHANGED <<senderVars, listenerVars>>]_vars

\* after stop() an event with a code, a URL and a keyword was discarded, and
\* so was an event with a text that holds no keyword
C31_Witness ==
  /\ stops = 1
  /\ texts[1] = CodeAndUrlText /\ pushTasks[1].result = "skipped"
  /\ texts[2] = NoKeywordText /\ pushTasks[2].result = "skipped"

\* the jobs that an enqueue creates now: one per loaded, active group
LoadedActiveCount ==
  Cardinality({i \in 1..Len(groupEntities) : targetGroups[groupEntities[i]]})

\* processRealTimeMessage saves the new document of message m
PushSaves(m) ==
  /\ pushTasks[m].pc = "insert"
  /\ pushTasks'[m].result = "saved"
  /\ Len(store') = Len(store) + 1

\* C32: on the live-push path a newly inserted message is enqueued exactly
\* when (onlyWithBonusCode is off or hasBonus is true) and the length of
\* its text is at least minMessageLength, whatever hasWebsite is and
\* whatever the poll path's policy would say
C32_PushPolicy ==
  [][\A m \in Msgs :
       PushSaves(m) =>
         LET doc == store'[Len(store')]
             send == /\ (~settings.onlyWithBonusCode \/ doc.hasBonus)
                     /\ TextLength(doc.text) >= settings.minMessageLength
             made == IF send THEN LoadedActiveCount ELSE 0
         IN /\ Len(jobs') = Len(jobs) + made
            /\ Len(sendQueue') = Len(sendQueue) + made
            /\ \A j \in Len(jobs) + 1..Len(jobs') :
                 /\ jobs'[j].doc = Len(store')
                 /\ jobs'[j].via = "push"]_vars

\* with the flag off and a minimum length of 10, a message without a code
\* and without a URL was enqueued, which the poll path's policy refuses,
\* and a shorter message with a URL was saved and not enqueued
C32_Witness ==
  /\ ~settings.onlyWithBonusCode /\ settings.minMessageLength = 10
  /\ texts[1] = KeywordOnlyText /\ texts[2] = UrlOnlyText
  /\ pushTasks[1].result = "saved" /\ pushTasks[2].result = "saved"
  /\ ~store[pushTasks[1].doc].hasWebsite
  /\ ~PollShouldSend(store[pushTasks[1].doc])
  /\ store[pushTasks[2].doc].hasWebsite
  /\ \E j \in 1..Len(jobs) : jobs[j].doc = pushTasks[1].doc
  /\ \A j \in 1..Len(jobs) : jobs[j].doc # pushTasks[2].doc

(***************************************************************************)
(* The reconnect controller                                                *)
(***************************************************************************)
\* no start() has got past its connect(): none is at loadChannelEntities
\* and none has registered the handler
NeverStarted ==
  /\ ~handlerRegistered
  /\ \A r \in ReconIds : recon[r] # "load"

\* handleReconnect has given up after maxReconnectAttempts attempts: the
\* listener is stopped and no call chain is left
GaveUp ==
  /\ exhausted
  /\ reconnectAttempts = MaxReconnectAttempts
  /\ ~isListening
  /\ ~heartbeatInterval /\ heartbeats = 0
  /\ channelEntities = {}
  /\ RunningRecon = {}

\* C33: when every connect of every start() throws, the listener ends up
\* stopped (not listening, no heartbeat interval, an empty handle map) with
\* the counter at maxReconnectAttempts, and stays so: nothing retries
C33_FailingStartsGiveUp ==
  ([]NeverStarted /\ <>(starts > 0)) => <>[]GaveUp

C33_Witness == GaveUp /\ NeverStarted /\ starts > 0

(***************************************************************************)
(* Progress of the send queue                                              *)
(***************************************************************************)
AllJobs == 1..(MaxMsgs * MaxGroups)

\* job j is out of the system: the sink accepted it, or it was given up
\* after an error, or clearQueue emptied it out of the queue
Left(j) == j \in JobsOf(sentLog) \cup dropped \cup discarded

\* no processQueue is sleeping out a FLOOD_WAIT
NoFloodWait == \A c \in CycleIds : cycles[c].pc # "flood"

\* with a sink that stops answering FLOOD_WAIT at some time, every job
\* leaves the system and the queue ends up empty
C34_JobsLeave ==
  <>[]NoFloodWait =>
    /\ \A j \in AllJobs : (j <= Len(jobs)) ~> Left(j)
    /\ <>[](sendQueue = <<>>)

\* a job that is answered FLOOD_WAIT and never leaves keeps every job
\* enqueued after it from being sent
C34_LaterJobsBlocked ==
  \A j, k \in AllJobs :
    j < k =>
      (([](j <= Len(jobs) => ~Left(j)) /\ <>(j \in flooded))
         => [](k \notin JobsOf(sentLog)))

\* C34: rate-limited sends are retried without a cap; when the drain timer
\* keeps firing and the sink does not rate-limit forever, every enqueued job
\* leaves the system (sent, given up after another error, or discarded by
\* stop) and the queue ends up empty; and a sink that rate-limits one job
\* forever keeps every later job from being sent
C34_QueueProgress == C34_JobsLeave /\ C34_LaterJobsBlocked

(***************************************************************************)
(* The processed flag                                                      *)
(***************************************************************************)
\* C35: a stored message has processed = true only if the sink accepted at
\* least one job of that message; enqueueing alone, with or without a job
\* created, does not set the flag
C35_ProcessedMeansSent ==
  \A d \in 1..Len(store) :
    store[d].processed =>
      \E i \in 1..Len(sentLog) : jobs[sentLog[i]].doc = d

(***************************************************************************)
(* Conservation of the queue items                                         *)
(***************************************************************************)
\* the items of its batch that processQueue c has still to handle: the item
\* at the head is done with once its send was answered
Remaining(c) ==
  IF cycles[c].pc = "idle" THEN <<>>
  ELSE IF cycles[c].pc = "send" THEN cycles[c].batch
  ELSE Tail(cycles[c].batch)

\* how often job j is in the sequence q
Occurrences(q, j) == Cardinality({i \in 1..Len(q) : q[i] = j})

\* the places job j is in: the queue, the batch of a running cycle, sent,
\* given up after an error without having been sent, discarded by clearQueue
Places(j) ==
  (IF Occurrences(sendQueue, j) > 0 THEN {"queue"} ELSE {})
  \cup (IF \E c \in CycleIds : Occurrences(Remaining(c), j) > 0
        THEN {"batch"} ELSE {})
  \cup (IF Occurrences(sentLog, j) > 0 THEN {"sent"} ELSE {})
  \cup (IF j \in dropped /\ Occurrences(sentLog, j) = 0
        THEN {"dropped"} ELSE {})
  \cup (IF j \in discarded THEN {"discarded"} ELSE {})

\* C36: every job ever enqueued is in exactly one place (the queue, the
\* batch of the running cycle, sent, given up after an error that is not a
\* FLOOD_WAIT, or discarded by stop), is in the queue and in the batches at
\* most once, and is accepted by the sink at most once, whatever was
\* requeued after a FLOOD_WAIT or enqueued while a cycle was running
C36_QueueConservation ==
  \A j \in 1..Len(jobs) :
    /\ Cardinality(Places(j)) = 1
    /\ Occurrences(sendQueue, j) <= 1
    /\ Cardinality({c \in CycleIds : Occurrences(Remaining(c), j) > 0}) <= 1
    /\ \A c \in CycleIds : Occurrences(Remaining(c), j) <= 1
    /\ Occurrences(sentLog, j) <= 1

\* with a batch size of 3: job 1 was requeued after a FLOOD_WAIT and is
\* accepted by the sink in a later cycle, job 2 was given up, and jobs 3 and
\* 4 were enqueued while that later cycle was running
C36_Witness ==
  /\ settings.batchSize = 3
  /\ flooded = {1}
  /\ dropped = {2}
  /\ sentLog = <<1>>
  /\ sendQueue = <<3, 4>>
  /\ \E c \in CycleIds : cycles[c] = [pc |-> "mark", batch |-> <<1>>]

(***************************************************************************)
(* The reconnect counter and the heartbeat interval                        *)
(***************************************************************************)
\* C37: the reconnect counter stays within 0..maxReconnectAttempts, however
\* heartbeat ticks, failing starts and sleeping reconnects interleave
C37_AttemptsBounded ==
  reconnectAttempts \in 0..MaxReconnectAttempts

\* the counter is at its maximum while two reconnects are under way, one
\* asleep and one whose connect() is pending, and a heartbeat interval is
\* live
C37_Witness ==
  /\ reconnectAttempts = MaxReconnectAttempts
  /\ \E r, q \in ReconIds : recon[r] = "sleep" /\ recon[q] = "connect"
  /\ heartbeats > 0

\* C38: at most one heartbeat interval is live and this.heartbeatInterval
\* is its handle; so after stop(), which clears the interval of the handle,
\* no heartbeat interval is left that can fire
C38_OneHeartbeat ==
  heartbeats = IF heartbeatInterval THEN 1 ELSE 0

\* a chain goes into connect() or loadChannelEntities(): a start() attempt
StartAttempt ==
  \E r \in ReconIds : /\ recon[r] \notin {"connect", "load"}
                      /\ recon'[r] \in {"connect", "load"}

\* C39: after a stop() from outside that no start() from outside follows,
\* the listener stays stopped: it is never listening again and no start()
\* attempt is made, also when stop() came while a handleReconnect was in
\* its sleep(reconnectDelay)
C39_StaysStopped ==
  /\ [](stops > 0 => ~isListening)
  /\ [][stops > 0 => ~StartAttempt]_vars

====
